---- MODULE Spec2Model ----
(***************************************************************************)
(* Model of the recursive crawler of app/main.py (run_system), its fetch   *)
(* dispatcher app/scraper_module/fetcher.py (fetch_content_and_links), the *)
(* link extractor app/scraper_module/parser.py (extract_links), its text   *)
(* extraction (parse_html_content, contextual_extract) and the social      *)
(* filter app/scraper_module/filter.py (is_social_url).                    *)
(*                                                                         *)
(* A Python str is a sequence of one-character strings, so that the URL    *)
(* functions are computed character by character as urllib computes them.  *)
(***************************************************************************)
EXTENDS Integers, Sequences, FiniteSets, TLC

VARIABLES
    pc,                     \* position of run_system / fetch_content_and_links
    MAX_CRAWL_DEPTH,        \* SETTINGS.MAX_CRAWL_DEPTH
    INPUT_LINK,             \* the seed list
    db_connected,           \* DB_HANDLER.is_connected()
    web,                    \* the pages the requests and the browser reach
    crawl_queue,            \* deque of (normalized_url, depth, base_domain)
    visited_urls,
    queued_urls,
    cur,                    \* (current_url, current_depth, current_base_domain)
    crawl_result,           \* the dict returned by fetch_content_and_links
    db_documents,           \* the documents handed to DB_HANDLER.insert_data
    db_status_message,      \* main.py lines 120-130
    PROCESSED_FILE_URLS,    \* fetcher.py module global
    dom,                    \* hrefs of the anchors of the page being fetched
    all_links,              \* static path: all_links of line 209
    newly_discovered_links,
    incremental_page_links, \* Unbound until line 282 assigns it
    scraped_files,          \* Unbound until line 215 / 274 assigns it
    file_iter,              \* the file links the for loop has not yet visited
    browser,                \* the Playwright browser of the fetch
    close_calls,            \* browser.close() calls made by the current fetch
    frontier_log,           \* history: every entry appended to crawl_queue
    fetch_log,              \* history: every entry handed to fetch_content_and_links
    file_log,               \* history: what happened to each file link met
    linked,                 \* history: (page, file link) for each file link in a markup
    delays,                 \* history: time.sleep calls since the last fetch
    faults,                 \* failures the environment has produced so far
    nu_url, nu_prev, nu_calls, \* normalize_url applied repeatedly to one string
    layout,                 \* the controls each selector of tab_selectors finds
    sim_page,               \* which of the sibling pages is being fetched
    sel,                    \* position in tab_selectors
    elem,                   \* i of the loop over elements.nth(i)
    total_clicks,
    clicked_elements_key,   \* local set of simulate_clicks_on_tabs
    GLOBAL_CLICKED_ELEMENTS, \* fetcher.py module global
    links_before_click,
    click_log,              \* history: what happened to each element reached
    observed,               \* history: links seen after the clicks of this call
    baseline,               \* history: links seen before the first click
    scratch_files,          \* the file URLs whose download lies under DOWNLOAD_DIR
    full_text,              \* parser.py: the visible text of the page being parsed
    GLOBAL_EXTRACTION_SCHEMA, \* parser.py module global, in the order of its items
    contextual_data         \* parser.py: the dict parse_html_content fills

runVars   == <<MAX_CRAWL_DEPTH, INPUT_LINK, db_connected, web>>
queueVars == <<crawl_queue, visited_urls, queued_urls>>
localVars == <<all_links, newly_discovered_links, incremental_page_links,
               scraped_files, file_iter>>
fetchVars == <<dom, localVars>>
sessVars  == <<browser, close_calls>>
histVars  == <<frontier_log, fetch_log, file_log, linked, delays>>
normVars  == <<nu_url, nu_prev, nu_calls>>
clickVars == <<layout, sim_page, sel, elem, total_clicks, clicked_elements_key,
               GLOBAL_CLICKED_ELEMENTS, links_before_click, click_log, observed,
               baseline>>
parseVars == <<full_text, GLOBAL_EXTRACTION_SCHEMA, contextual_data>>
vars == <<pc, runVars, queueVars, cur, crawl_result, db_documents, db_status_message,
          PROCESSED_FILE_URLS, fetchVars, sessVars, histVars, faults, normVars,
          clickVars, scratch_files, parseVars>>

(***************************************************************************)
(* Bounds of the model.                                                    *)
(***************************************************************************)
MaxLen == 5          \* longest string handed to normalize_url in SpecNorm
MaxDepth == 2        \* MAX_CRAWL_DEPTH ranges over 0..MaxDepth
NormCalls == 2       \* calls of normalize_url on one string in SpecNorm
MaxFaults == 1       \* failures (raised errors, failed downloads, inserts) per run

(***************************************************************************)
(* str helpers                                                             *)
(***************************************************************************)
UpperCase == <<"A", "B", "C", "D", "E", "F", "G", "H", "I", "J", "K", "L", "M",
               "N", "O", "P", "Q", "R", "S", "T", "U", "V", "W", "X", "Y", "Z">>
LowerCase == <<"a", "b", "c", "d", "e", "f", "g", "h", "i", "j", "k", "l", "m",
               "n", "o", "p", "q", "r", "s", "t", "u", "v", "w", "x", "y", "z">>
Digits == {"0", "1", "2", "3", "4", "5", "6", "7", "8", "9"}
Range(s) == {s[i] : i \in DOMAIN s}
UpperCaseLetters == Range(UpperCase)
Letters == UpperCaseLetters \cup Range(LowerCase)
LowerOf ==
    [c \in UpperCaseLetters |->
        LowerCase[CHOOSE i \in DOMAIN UpperCase : UpperCase[i] = c]]

\* str.lower()
LowerChar(c) == IF c \in UpperCaseLetters THEN LowerOf[c] ELSE c
Lower(s) == [i \in DOMAIN s |-> LowerChar(s[i])]

\* s[i:] and s[:i] with 1-based positions
From(s, i) == SubSeq(s, i, Len(s))
Upto(s, i) == SubSeq(s, 1, i)

\* t occurs in s at position i
OccursAt(s, t, i) ==
    /\ i >= 1
    /\ i + Len(t) - 1 <= Len(s)
    /\ \A k \in 1..Len(t) : s[i + k - 1] = t[k]
\* t in s
Contains(s, t) == \E i \in 1..(Len(s) + 1) : OccursAt(s, t, i)
\* s.endswith(t)
EndsWith(s, t) == OccursAt(s, t, Len(s) - Len(t) + 1)
\* s.find(c) + 1 for a character of cs; 0 when there is none
FindAny(s, cs) ==
    LET hits == {i \in DOMAIN s : s[i] \in cs}
    IN  IF hits = {} THEN 0 ELSE CHOOSE i \in hits : \A j \in hits : i <= j
Find(s, c) == FindAny(s, {c})
\* s.rstrip(c)
RStrip(s, c) ==
    LET keep == {i \in DOMAIN s : s[i] # c}
    IN  IF keep = {} THEN <<>>
        ELSE Upto(s, CHOOSE i \in keep : \A j \in keep : j <= i)

(***************************************************************************)
(* urllib.parse                                                            *)
(***************************************************************************)
SchemeChars == Letters \cup Digits \cup {"+", "-", "."}

\* The value of a one-element set: TheOne({F(x) : x \in {e}}) is F(e) with e
\* evaluated once.
TheOne(S) == CHOOSE x \in S : TRUE

\* urlsplit: the scheme, when the text before the first ":" is one
SplitScheme(url) ==
    LET i == Find(url, ":")
    IN  IF /\ i > 1
           /\ url[1] \in Letters
           /\ \A k \in 1..(i - 1) : url[k] \in SchemeChars
        THEN [scheme |-> Lower(Upto(url, i - 1)), rest |-> From(url, i + 1)]
        ELSE [scheme |-> <<>>, rest |-> url]

\* urlsplit: the netloc after "//", up to the first of "/", "?" and "#"
SplitNetloc(url) ==
    IF Len(url) >= 2 /\ url[1] = "/" /\ url[2] = "/"
    THEN LET hits == {i \in 3..Len(url) : url[i] \in {"/", "?", "#"}}
             delim == IF hits = {} THEN Len(url) + 1
                      ELSE CHOOSE i \in hits : \A j \in hits : i <= j
         IN  [netloc |-> SubSeq(url, 3, delim - 1), rest |-> From(url, delim)]
    ELSE [netloc |-> <<>>, rest |-> url]

\* url.split(c, 1)
SplitAt(url, c) ==
    LET i == Find(url, c)
    IN  IF i = 0 THEN [head |-> url, tail |-> <<>>]
        ELSE [head |-> Upto(url, i - 1), tail |-> From(url, i + 1)]

\* urlparse(url): urlsplit's scheme, netloc, path, query and fragment.  The
\* strings of the model hold no ";", "[", "]", blank or control character,
\* so params stay empty and urlparse never raises ValueError.
urlparse(url) ==
    TheOne(UNION UNION UNION
        {{{{ [scheme |-> s.scheme, netloc |-> n.netloc, path |-> q.head,
              query |-> q.tail, fragment |-> f.tail]
              : q \in {SplitAt(f.head, "?")} }
              : f \in {SplitAt(n.rest, "#")} }
              : n \in {SplitNetloc(s.rest)} }
              : s \in {SplitScheme(url)} })

UsesNetloc == {<<"h", "t", "t", "p">>, <<"h", "t", "t", "p", "s">>}

\* urlunparse(parsed._replace(fragment="", query=""))
urlunparse(p) ==
    LET withNetloc ==
            \/ p.netloc # <<>>
            \/ /\ p.scheme \in UsesNetloc
               /\ ~(Len(p.path) >= 2 /\ p.path[1] = "/" /\ p.path[2] = "/")
        slash == IF withNetloc /\ p.path # <<>> /\ p.path[1] # "/"
                 THEN <<"/">> ELSE <<>>
    IN  (IF p.scheme # <<>> THEN p.scheme \o <<":">> ELSE <<>>)
            \o (IF withNetloc THEN <<"/", "/">> \o p.netloc \o slash ELSE <<>>)
            \o p.path

\* main.py normalize_url
normalize_url(url) ==
    TheOne({ parsed.scheme \o <<":", "/", "/">> \o parsed.netloc
                 \o TheOne({RStrip(path, "/") : path \in {parsed.path}})
             : parsed \in {urlparse(url)} })

(***************************************************************************)
(* filter.py                                                               *)
(***************************************************************************)
SOCIAL_DOMAINS == {
      <<"f", "a", "c", "e", "b", "o", "o", "k", ".", "c", "o", "m">>,
      <<"i", "n", "s", "t", "a", "g", "r", "a", "m", ".", "c", "o", "m">>,
      <<"t", "w", "i", "t", "t", "e", "r", ".", "c", "o", "m">>,
      <<"x", ".", "c", "o", "m">>,
      <<"l", "i", "n", "k", "e", "d", "i", "n", ".", "c", "o", "m">>,
      <<"y", "o", "u", "t", "u", "b", "e", ".", "c", "o", "m">>,
      <<"t", "i", "k", "t", "o", "k", ".", "c", "o", "m">>,
      <<"p", "i", "n", "t", "e", "r", "e", "s", "t", ".", "c", "o", "m">>,
      <<"s", "n", "a", "p", "c", "h", "a", "t", ".", "c", "o", "m">>,
      <<"t", "h", "r", "e", "a", "d", "s", ".", "n", "e", "t">> }

is_social_url(url) ==
    IF url = <<>> THEN FALSE
    ELSE \E lowered \in {Lower(url)} :
            \E domain \in SOCIAL_DOMAINS : Contains(lowered, domain)

(***************************************************************************)
(* fetcher.py and parser.py: pure classification of links                  *)
(***************************************************************************)
DOWNLOADABLE_EXTENSIONS == {
      <<".", "p", "d", "f">>,
      <<".", "d", "o", "c">>,
      <<".", "d", "o", "c", "x">>,
      <<".", "x", "l", "s">>,
      <<".", "x", "l", "s", "x">>,
      <<".", "z", "i", "p">>,
      <<".", "m", "p", "4">>,
      <<".", "j", "p", "g">>,
      <<".", "p", "n", "g">> }

is_downloadable_file_link(url) ==
    \E path \in {Lower(urlparse(url).path)} :
        \E ext \in DOWNLOADABLE_EXTENSIONS : EndsWith(path, ext)

\* fetcher.py line 87: file_extension == '.pdf'
IsPdf(url) ==
    \E path \in {Lower(urlparse(url).path)} : EndsWith(path, <<".", "p", "d", "f">>)

\* fetch_content_and_links line 194: the URL is fetched with requests
StaticKeywords == { <<"a", "p", "i">>,
                    <<".", "j", "s", "o", "n">>,
                    <<".", "x", "m", "l">> }
IsStaticUrl(url) ==
    \E lowered \in {Lower(url)} :
        \E keyword \in StaticKeywords : Contains(lowered, keyword)

HttpSchemes == {<<"h", "t", "t", "p">>, <<"h", "t", "t", "p", "s">>}

\* urljoin(base_url, href) for an href that is an absolute http(s) URL with a
\* host, the only hrefs of the model: urljoin re-assembles the parsed href.
urljoin(base_url, href) ==
    IF base_url = <<>> THEN href
    ELSE TheOne(
            { IF bp[2].scheme # bp[1].scheme \/ bp[2].scheme \notin HttpSchemes
              THEN href
              ELSE urlunparse(bp[2])
                     \o (IF bp[2].query # <<>> THEN <<"?">> \o bp[2].query ELSE <<>>)
                     \o (IF bp[2].fragment # <<>> THEN <<"#">> \o bp[2].fragment
                         ELSE <<>>)
              : bp \in {urlparse(base_url)} \X {urlparse(href)} })

\* parser.py extract_links lines 169-170: re.match(r"^(mailto|javascript):")
IsMailOrScript(url) ==
    \E lowered \in {Lower(url)} :
        \/ OccursAt(lowered, <<"m", "a", "i", "l", "t", "o", ":">>, 1)
        \/ OccursAt(lowered, <<"j", "a", "v", "a", "s", "c", "r", "i", "p", "t", ":">>, 1)

\* parser.py extract_links lines 143-173 for one anchor: the set that holds
\* the cleaned link, or the empty set when the anchor is dropped.
ExtractAnchor(href, base_url) ==
    UNION { LET full_urls == IF href = <<>> THEN {} ELSE {urljoin(base_url, href)}
                resolved == UNION {{urlparse(full_url)} : full_url \in full_urls}
                kept == {parsed_link \in resolved :
                            /\ parsed_link.scheme \in HttpSchemes
                            /\ ~(base_domain # <<>> /\ parsed_link.netloc # base_domain)}
                cleaned == {urlunparse(parsed_link) : parsed_link \in kept}
            IN  {clean_url \in cleaned :
                    ~IsMailOrScript(clean_url) /\ ~is_social_url(clean_url)}
            : base_domain \in {urlparse(base_url).netloc} }

(***************************************************************************)
(* The web the crawler runs against: seed lists, page markups and the      *)
(* links that clicking reveals.  A run crawls one of the webs of Webs;     *)
(* every page is fetched at most once, so a page's markup is a function of *)
(* its URL.                                                                *)
(***************************************************************************)
U_a          == <<"h", "t", "t", "p", ":", "/", "/", "a">>
U_a_slash    == <<"h", "t", "t", "p", ":", "/", "/", "a", "/">>
U_a_p_query  == <<"h", "t", "t", "p", ":", "/", "/", "a", "/", "p", "?", "k">>
U_a_p_slash  == <<"h", "t", "t", "p", ":", "/", "/", "a", "/", "p", "/">>
U_a_q        == <<"h", "t", "t", "p", ":", "/", "/", "a", "/", "q">>
U_a_api      == <<"h", "t", "t", "p", ":", "/", "/", "a", "/", "a", "p", "i">>
U_a_pdf      == <<"h", "t", "t", "p", ":", "/", "/", "a", "/", "f", ".", "p", "d", "f">>
U_a_pdf_frag == <<"h", "t", "t", "p", ":", "/", "/", "a", "/", "f", ".", "p", "d", "f", "#", "s">>
U_a_zip      == <<"h", "t", "t", "p", ":", "/", "/", "a", "/", "f", ".", "z", "i", "p">>
U_b_slash    == <<"h", "t", "t", "p", ":", "/", "/", "b", "/">>
U_b_p        == <<"h", "t", "t", "p", ":", "/", "/", "b", "/", "p">>
U_social     == <<"h", "t", "t", "p", ":", "/", "/", "x", ".", "c", "o", "m", "/", "p">>
\* a page whose path holds a blocklisted name, and a site whose host ends in one
U_a_xcom     == <<"h", "t", "t", "p", ":", "/", "/", "a", "/", "x", ".", "c", "o", "m">>
U_ax_api     == <<"h", "t", "t", "p", ":", "/", "/", "a", "x", ".", "c", "o", "m", "/",
                  "a", "p", "i">>
U_ax_p       == <<"h", "t", "t", "p", ":", "/", "/", "a", "x", ".", "c", "o", "m", "/", "p">>

\* The seed lists INPUT_LINK ranges over: one seed given twice (with and
\* without its trailing slash), two seeds of unrelated hosts, a static seed,
\* and a static seed of a site whose host ends in a blocklisted name.
SeedLists == { <<U_a_slash, U_a>>,
               <<U_a_slash, U_b_slash>>,
               <<U_a_api>>,
               <<U_ax_api>> }

\* three internal links, one external link and one social-domain link
ScenarioMarkup == {U_a_p_query, U_a_q, U_a_api, U_b_p, U_social}

\* links back to the site's pages, under other spellings, and a PDF
BackMarkup == {U_a_slash, U_a_p_slash, U_a_pdf_frag}

\* two pages and the PDF, spelled with a query and with a fragment
PdfMarkup == {U_a_p_query, U_a_q, U_a_pdf_frag, U_b_p}

\* a page, the PDF and an archive
ArchiveMarkup == {U_a_q, U_a_pdf_frag, U_a_zip}

\* one page; and the next page with a link back to the start
FirstMarkup == {U_a_p_query}
NextMarkup == {U_a_q, U_a_slash}

\* a page of each site, and a page whose path holds a blocklisted name
LabelMarkup == {U_a_q, U_a_xcom, U_ax_p}

\* The markups a fetched page may hold (the hrefs of its anchors).
Markups == {ScenarioMarkup, BackMarkup, PdfMarkup, ArchiveMarkup, FirstMarkup,
            NextMarkup, LabelMarkup}

\* The anchors that the clicks of simulate_clicks_on_tabs may add to the DOM.
Reveals == { {},
             {U_a_p_slash},
             {U_a_pdf},
             {U_a_q, U_a_pdf, U_a_zip} }

(***************************************************************************)
(* The URL functions, tabulated once over the URLs of this web.            *)
(***************************************************************************)
Hrefs == UNION Markups \cup UNION Reveals
SeedUrls == UNION {{seeds[i] : i \in DOMAIN seeds} : seeds \in SeedLists}
SeedPages == {normalize_url(u) : u \in SeedUrls}
\* every link extract_links can return, and every URL the queue can hold
Links == UNION {ExtractAnchor(h, b) : <<h, b>> \in Hrefs \X SeedPages}
Pages == SeedPages \cup {normalize_url(l) : l \in Links}

ExtractOf == [b \in Pages |-> [h \in Hrefs |-> ExtractAnchor(h, b)]]
NormalizedOf == [u \in SeedUrls \cup Links |-> normalize_url(u)]
NetlocOf == [u \in Links \cup Pages |-> urlparse(u).netloc]
IsSocialOf == [u \in Pages |-> is_social_url(u)]
IsFileOf == [u \in Links |-> is_downloadable_file_link(u)]
IsStaticOf == [u \in Pages |-> IsStaticUrl(u)]
IsPdfOf == [u \in Links |-> IsPdf(u)]

\* parser.py extract_links, the markup being the set of its anchors' hrefs
extract_links(hrefs, base_url) ==
    UNION {ExtractOf[base_url][h] : h \in hrefs}

\* What a page holds: the hrefs of the anchors of its markup, and those that
\* clicking its tabs adds.
Content(markup, reveal) == [markup |-> markup, reveal |-> reveal]

\* The seed page holds the scenario's five links and its tabs hide a PDF; the
\* other pages link back to the site and hide a page, the same PDF and an
\* archive.
ScenarioWeb ==
    [p \in Pages |-> IF p \in SeedPages THEN Content(ScenarioMarkup, {U_a_pdf})
                     ELSE Content(BackMarkup, {U_a_q, U_a_pdf, U_a_zip})]

\* No click reveals a link: the seed page holds the scenario's five links,
\* the other pages two pages and a PDF.
PlainWeb ==
    [p \in Pages |-> IF p \in SeedPages THEN Content(ScenarioMarkup, {})
                     ELSE Content(PdfMarkup, {})]

\* Every page links a PDF in its markup, and its tabs hide one more page.
TabbedWeb == [p \in Pages |-> Content(PdfMarkup, {U_a_p_slash})]

\* Every page links a page and two files in its markup and has no tabs.
ArchiveWeb == [p \in Pages |-> Content(ArchiveMarkup, {})]

\* A chain: the seed page links one page, which links the next one and back
\* to the seed; the tabs of every page hide one more spelling of the first.
ChainWeb ==
    [p \in Pages |-> IF p \in SeedPages THEN Content(FirstMarkup, {U_a_p_slash})
                     ELSE Content(NextMarkup, {U_a_p_slash})]

\* Every page links a page of each site and a page whose path holds a
\* blocklisted name; its tabs hide one more page.
LabelWeb == [p \in Pages |-> Content(LabelMarkup, {U_a_p_slash})]

Webs == {ScenarioWeb, PlainWeb, TabbedWeb, ArchiveWeb, ChainWeb, LabelWeb}

(***************************************************************************)
(* Values                                                                  *)
(***************************************************************************)
\* A local name of fetch_content_and_links that no assignment has reached,
\* and one bound to the value v.
Unbound == <<>>
Bound(v) == <<v>>

NoEntry == [url |-> <<>>, depth |-> 0, base |-> <<>>]
NoResult == [type |-> "NONE", error |-> "", links |-> {}, scraped_files |-> <<>>]

\* fetcher.py lines 247 and 328: the dict of a failed fetch
ErrorResult(message, links, files) ==
    [type |-> "ERROR", error |-> message, links |-> links, scraped_files |-> files]

\* fetcher.py lines 203, 238-244, 314-322: the dict of a fetch that worked
OkResult(type, links, files) ==
    [type |-> type, error |-> "", links |-> links, scraped_files |-> files]

\* The mutant of DbDocument whose status does not look at the error.
DbDocumentAlwaysSuccess(entry, result) ==
    [input_url |-> entry.url,
     crawl_depth |-> entry.depth,
     status |-> "SUCCESS",
     error_message |-> result.error,
     scraped_files |-> result.scraped_files]

\* main.py lines 102-116: the document handed to insert_data
DbDocument(entry, result) ==
    [input_url |-> entry.url,
     crawl_depth |-> entry.depth,
     status |-> IF result.error = "" THEN "SUCCESS" ELSE "FAILED",
     error_message |-> result.error,
     scraped_files |-> result.scraped_files]

\* fetcher.py process_document_content: the record of a downloaded file.
\* extracted says whether pdfplumber read the file.
DocData(file_url, extracted) ==
    [file_url |-> file_url,
     file_type |-> IF IsPdfOf[file_url] THEN "pdf" ELSE "other",
     content_text |-> IF IsPdfOf[file_url] /\ extracted THEN "text" ELSE "None"]

FileLinks(links) == {l \in links : IsFileOf[l]}

\* All orders in which a for loop may visit the elements of a Python set.
Orders(S) ==
    {s \in [1..Cardinality(S) -> S] : \A i, j \in DOMAIN s : i # j => s[i] # s[j]}

(***************************************************************************)
(* run_system: seeding and the enqueue loop                                *)
(***************************************************************************)
\* The mutant of IsNew that forgets the visited set.
IsNewForgetsVisited(normalized_link, visited, queued) ==
    normalized_link \notin queued

\* The mutant of IsNew that forgets the queued set.
IsNewForgetsQueued(normalized_link, visited, queued) ==
    normalized_link \notin visited

\* main.py lines 69 and 153: is_new
IsNew(normalized_link, visited, queued) ==
    normalized_link \notin visited /\ normalized_link \notin queued

\* main.py line 151: is_internal
IsInternal(link, base_domain) == NetlocOf[link] = base_domain

\* The mutant of DepthAllowed that lets one level too many through.
DepthAllowedOffByOne(next_depth, max_depth) == next_depth <= max_depth + 1

\* main.py line 145
DepthAllowed(next_depth, max_depth) == next_depth <= max_depth

\* The state of the frontier: the deque, queued_urls and the history of appends.
Frontier(q, queued, log) == [q |-> q, queued |-> queued, log |-> log]

RECURSIVE SeedLoop(_, _, _)
\* The mutant of SeedLoop that gives every seed the domain of the first one.
SeedLoopFirstSeedBase(links, i, f) ==
    IF i > Len(links) THEN f
    ELSE LET normalized_link == NormalizedOf[links[i]]
             base_domain == NetlocOf[NormalizedOf[links[1]]]
             entry == [url |-> normalized_link, depth |-> 0, base |-> base_domain]
         IN  IF IsNew(normalized_link, {}, f.queued)
             THEN SeedLoop(links, i + 1,
                           Frontier(Append(f.q, entry),
                                    f.queued \cup {normalized_link},
                                    Append(f.log, [entry |-> entry, parent |-> NoEntry])))
             ELSE SeedLoop(links, i + 1, f)

\* main.py lines 64-71, over INPUT_LINK from position i on
SeedLoop(links, i, f) ==
    IF i > Len(links) THEN f
    ELSE LET normalized_link == NormalizedOf[links[i]]
             base_domain == NetlocOf[normalized_link]
             entry == [url |-> normalized_link, depth |-> 0, base |-> base_domain]
         IN  IF IsNew(normalized_link, {}, f.queued)
             THEN SeedLoop(links, i + 1,
                           Frontier(Append(f.q, entry),
                                    f.queued \cup {normalized_link},
                                    Append(f.log, [entry |-> entry, parent |-> NoEntry])))
             ELSE SeedLoop(links, i + 1, f)

\* main.py lines 146-163, over the links in the order the set yields them
RECURSIVE EnqueueLoop(_, _, _, _, _)
EnqueueLoop(order, i, parent, visited, f) ==
    IF i > Len(order) THEN f
    ELSE LET link == order[i]
             normalized_link == NormalizedOf[link]
             entry == [url |-> normalized_link, depth |-> parent.depth + 1,
                       base |-> parent.base]
         IN  IF /\ IsInternal(link, parent.base)
                /\ IsNew(normalized_link, visited, f.queued)
                /\ ~IsSocialOf[normalized_link]
             THEN EnqueueLoop(order, i + 1, parent, visited,
                              Frontier(Append(f.q, entry),
                                       f.queued \cup {normalized_link},
                                       Append(f.log, [entry |-> entry, parent |-> parent])))
             ELSE EnqueueLoop(order, i + 1, parent, visited, f)

(***************************************************************************)
(* Initial states                                                          *)
(***************************************************************************)
NoFetchLocals ==
    /\ all_links = {}
    /\ newly_discovered_links = {}
    /\ incremental_page_links = Unbound
    /\ scraped_files = Unbound
    /\ file_iter = {}

InitCrawlState ==
    /\ crawl_queue = <<>>
    /\ visited_urls = {}
    /\ queued_urls = {}
    /\ cur = NoEntry
    /\ crawl_result = NoResult
    /\ db_documents = <<>>
    /\ db_status_message = ""
    /\ PROCESSED_FILE_URLS = {}
    /\ dom = {}
    /\ NoFetchLocals
    /\ browser = "none"
    /\ close_calls = 0
    /\ frontier_log = <<>>
    /\ fetch_log = <<>>
    /\ file_log = <<>>
    /\ linked = {}
    /\ delays = 0
    /\ faults = 0
    /\ scratch_files = {}
    /\ full_text = <<>>
    /\ GLOBAL_EXTRACTION_SCHEMA = <<>>
    /\ contextual_data = <<>>
    /\ sim_page = 0
    /\ sel = 0
    /\ elem = 0
    /\ total_clicks = 0
    /\ clicked_elements_key = {}
    /\ GLOBAL_CLICKED_ELEMENTS = {}
    /\ links_before_click = {}
    /\ click_log = <<>>
    /\ observed = {}
    /\ baseline = {}

Init ==
    /\ pc = "start"
    /\ MAX_CRAWL_DEPTH \in 0..MaxDepth
    /\ INPUT_LINK \in SeedLists
    /\ db_connected \in BOOLEAN
    /\ web \in Webs
    /\ layout = <<>>
    /\ InitCrawlState
    /\ nu_url = <<>>
    /\ nu_prev = <<>>
    /\ nu_calls = 0

(***************************************************************************)
(* run_system                                                              *)
(***************************************************************************)
\* An outcome in which the environment fails (a request, the browser, a
\* download, pdfplumber or the database), and one in which it does not.
Fault == faults < MaxFaults /\ faults' = faults + 1
NoFault == faults' = faults

\* main.py lines 49-73: the connectivity probe and the seeding of the queue
Start ==
    /\ pc = "start"
    /\ IF ~db_connected
       THEN /\ pc' = "exit"
            /\ UNCHANGED <<queueVars, frontier_log>>
       ELSE LET f == SeedLoop(INPUT_LINK, 1, Frontier(<<>>, {}, <<>>))
            IN  /\ crawl_queue' = f.q
                /\ queued_urls' = f.queued
                /\ frontier_log' = f.log
                /\ visited_urls' = visited_urls
                /\ pc' = "loop"
    /\ UNCHANGED <<runVars, cur, crawl_result, db_documents, db_status_message,
                   PROCESSED_FILE_URLS, fetchVars, sessVars,
                   fetch_log, file_log, linked, delays, faults, normVars, clickVars, scratch_files, parseVars>>

\* The mutant of Dequeue that does not add the URL to visited_urls.
DequeueNeverMarks ==
    /\ pc = "loop"
    /\ crawl_queue # <<>>
    /\ LET entry == Head(crawl_queue)
       IN  /\ crawl_queue' = Tail(crawl_queue)
           /\ queued_urls' = queued_urls \ {entry.url}
           /\ IF entry.url \in visited_urls
              THEN UNCHANGED <<pc, visited_urls, cur>>
              ELSE IF entry.depth > MAX_CRAWL_DEPTH
              THEN UNCHANGED <<pc, visited_urls, cur>>
              ELSE /\ visited_urls' = visited_urls
                   /\ cur' = entry
                   /\ pc' = "fetch"
    /\ UNCHANGED <<runVars, crawl_result, db_documents, db_status_message,
                   PROCESSED_FILE_URLS, fetchVars, sessVars, histVars, faults, normVars, clickVars, scratch_files, parseVars>>

\* The mutant of Dequeue that takes the entry appended last (pop for popleft).
DequeuePopsRight ==
    /\ pc = "loop"
    /\ crawl_queue # <<>>
    /\ LET entry == crawl_queue[Len(crawl_queue)]
       IN  /\ crawl_queue' = SubSeq(crawl_queue, 1, Len(crawl_queue) - 1)
           /\ queued_urls' = queued_urls \ {entry.url}
           /\ IF entry.url \in visited_urls
              THEN UNCHANGED <<pc, visited_urls, cur>>
              ELSE IF entry.depth > MAX_CRAWL_DEPTH
              THEN UNCHANGED <<pc, visited_urls, cur>>
              ELSE /\ visited_urls' = visited_urls \cup {entry.url}
                   /\ cur' = entry
                   /\ pc' = "fetch"
    /\ UNCHANGED <<runVars, crawl_result, db_documents, db_status_message,
                   PROCESSED_FILE_URLS, fetchVars, sessVars, histVars, faults, normVars, clickVars, scratch_files, parseVars>>

\* main.py lines 76-91: popleft, the redundancy check, the depth check and
\* the marking of the URL as visited
Dequeue ==
    /\ pc = "loop"
    /\ crawl_queue # <<>>
    /\ LET entry == Head(crawl_queue)
       IN  /\ crawl_queue' = Tail(crawl_queue)
           /\ queued_urls' = queued_urls \ {entry.url}
           /\ IF entry.url \in visited_urls
              THEN UNCHANGED <<pc, visited_urls, cur>>
              ELSE IF entry.depth > MAX_CRAWL_DEPTH
              THEN UNCHANGED <<pc, visited_urls, cur>>
              ELSE /\ visited_urls' = visited_urls \cup {entry.url}
                   /\ cur' = entry
                   /\ pc' = "fetch"
    /\ UNCHANGED <<runVars, crawl_result, db_documents, db_status_message,
                   PROCESSED_FILE_URLS, fetchVars, sessVars, histVars, faults, normVars, clickVars, scratch_files, parseVars>>

\* main.py lines 76 and 172: the queue is empty
Finish ==
    /\ pc = "loop"
    /\ crawl_queue = <<>>
    /\ pc' = "done"
    /\ UNCHANGED <<runVars, queueVars, cur, crawl_result, db_documents,
                   db_status_message, PROCESSED_FILE_URLS, fetchVars, sessVars,
                   histVars, faults, normVars, clickVars, scratch_files, parseVars>>

(***************************************************************************)
(* fetch_content_and_links                                                 *)
(***************************************************************************)
\* main.py line 99: the call, recorded with the sleeps made since the last one
CallFetch ==
    /\ fetch_log' = Append(fetch_log, [url |-> cur.url, depth |-> cur.depth,
                                       delays_before |-> delays])
    /\ delays' = 0

\* The locals of fetch_content_and_links end with the call.
DropFetchLocals ==
    /\ all_links' = {}
    /\ newly_discovered_links' = {}
    /\ incremental_page_links' = Unbound
    /\ scraped_files' = Unbound
    /\ file_iter' = {}

\* The file links of a markup, recorded with the page that holds them.
LinkedFiles(page_url, hrefs) ==
    {<<page_url, f>> : f \in FileLinks(extract_links(hrefs, page_url))}

\* fetcher.py lines 194-209 and 246-247: the static path up to the file loop
StaticGet ==
    /\ pc = "fetch"
    /\ IsStaticOf[cur.url]
    /\ CallFetch
    /\ \/ \* requests.get or raise_for_status raises RequestException
          /\ Fault
          /\ crawl_result' = ErrorResult("Request failed", {}, <<>>)
          /\ pc' = "store"
          /\ dom' = {}
          /\ UNCHANGED <<localVars, linked>>
       \/ \* a JSON or XML body: parse_api_content
          /\ NoFault
          /\ crawl_result' = OkResult("API", {}, <<>>)
          /\ pc' = "store"
          /\ dom' = {}
          /\ UNCHANGED <<localVars, linked>>
       \/ \* an HTML body
          /\ NoFault
          /\ dom' = web[cur.url].markup
          /\ all_links' = extract_links(dom', cur.url)
          /\ file_iter' = FileLinks(all_links')
          /\ scraped_files' = Bound(<<>>)
          /\ linked' = linked \cup LinkedFiles(cur.url, dom')
          /\ pc' = "static_files"
          /\ UNCHANGED <<crawl_result, newly_discovered_links,
                         incremental_page_links>>
    /\ UNCHANGED <<runVars, queueVars, cur, db_documents, db_status_message,
                   PROCESSED_FILE_URLS, sessVars, frontier_log, file_log, normVars, clickVars, scratch_files, parseVars>>

\* The mutant of AlreadyProcessed that never finds a file in the registry.
AlreadyProcessedNever(file_url, processed) == FALSE

\* fetcher.py lines 223 and 285
AlreadyProcessed(file_url, processed) == file_url \in processed

\* fetcher.py lines 84-85 and 72-74: the download of file_url lies under
\* DOWNLOAD_DIR; process_pdf_with_plumber removes a PDF, read or not, and
\* nothing removes a file of another type.
AfterProcessing(file_url, files) ==
    IF IsPdfOf[file_url] THEN files \ {file_url} ELSE files \cup {file_url}

FileEvent(file_url, what) == [page |-> cur.url, file |-> file_url, what |-> what]

\* fetcher.py lines 220-236 and 284-295: one turn of the loop over the file
\* links.  raise_pc is where an exception that download_file does not catch
\* (the OSError of open or write) takes the fetch.
FileStep(raise_pc) ==
    /\ file_iter # {}
    /\ \E file_url \in file_iter :
          /\ file_iter' = file_iter \ {file_url}
          /\ \/ \* already in the registry: continue
                /\ AlreadyProcessed(file_url, PROCESSED_FILE_URLS)
                /\ NoFault
                /\ file_log' = Append(file_log, FileEvent(file_url, "skipped"))
                /\ UNCHANGED <<pc, scraped_files, PROCESSED_FILE_URLS, scratch_files, parseVars>>
             \/ \* downloaded; pdfplumber reads the file or fails on it
                /\ ~AlreadyProcessed(file_url, PROCESSED_FILE_URLS)
                /\ \E extracted \in BOOLEAN :
                      /\ IF extracted THEN NoFault ELSE Fault
                      /\ scraped_files' =
                             Bound(Append(scraped_files[1], DocData(file_url, extracted)))
                /\ PROCESSED_FILE_URLS' = PROCESSED_FILE_URLS \cup {file_url}
                /\ file_log' = Append(file_log, FileEvent(file_url, "downloaded"))
                /\ scratch_files' = AfterProcessing(file_url, scratch_files)
                /\ UNCHANGED pc
             \/ \* download_file catches a RequestException and returns None
                /\ ~AlreadyProcessed(file_url, PROCESSED_FILE_URLS)
                /\ Fault
                /\ file_log' = Append(file_log, FileEvent(file_url, "download_failed"))
                /\ \E written \in BOOLEAN :
                      scratch_files' = IF written THEN scratch_files \cup {file_url}
                                       ELSE scratch_files
                /\ UNCHANGED <<pc, scraped_files, PROCESSED_FILE_URLS>>
             \/ \* open or write raises OSError inside download_file
                /\ ~AlreadyProcessed(file_url, PROCESSED_FILE_URLS)
                /\ Fault
                /\ file_log' = Append(file_log, FileEvent(file_url, "download_raised"))
                /\ pc' = raise_pc
                /\ \E written \in BOOLEAN :
                      scratch_files' = IF written THEN scratch_files \cup {file_url}
                                       ELSE scratch_files
                /\ UNCHANGED <<scraped_files, PROCESSED_FILE_URLS>>

\* fetcher.py lines 218-236: the static path's file loop; the except clause
\* of line 246 catches requests.RequestException only
StaticFile ==
    /\ pc = "static_files"
    /\ FileStep("crashed")
    /\ UNCHANGED <<runVars, queueVars, cur, crawl_result, db_documents,
                   db_status_message, dom, all_links, newly_discovered_links,
                   incremental_page_links, sessVars, frontier_log, fetch_log,
                   linked, delays, normVars, clickVars, parseVars>>

\* fetcher.py lines 238-244
StaticReturn ==
    /\ pc = "static_files"
    /\ file_iter = {}
    /\ crawl_result' = OkResult("STATIC_HTML", all_links \ FileLinks(all_links),
                                scraped_files[1])
    /\ DropFetchLocals
    /\ pc' = "store"
    /\ UNCHANGED <<runVars, queueVars, cur, db_documents, db_status_message,
                   PROCESSED_FILE_URLS, dom, sessVars, histVars, faults, normVars, clickVars, scratch_files, parseVars>>

\* fetcher.py lines 256-257: sync_playwright and chromium.launch, outside the try
Launch ==
    /\ pc = "fetch"
    /\ ~IsStaticOf[cur.url]
    /\ CallFetch
    /\ dom' = {}
    /\ close_calls' = 0
    /\ \/ /\ NoFault
          /\ browser' = "open"
          /\ pc' = "new_page"
       \/ \* the launch raises: nothing catches it
          /\ Fault
          /\ browser' = "none"
          /\ pc' = "crashed"
    /\ UNCHANGED <<runVars, queueVars, cur, crawl_result, db_documents,
                   db_status_message, PROCESSED_FILE_URLS, localVars,
                   frontier_log, file_log, linked, normVars, clickVars, scratch_files, parseVars>>

\* fetcher.py line 258: browser.new_page, outside the try
NewPage ==
    /\ pc = "new_page"
    /\ \/ /\ NoFault
          /\ pc' = "goto"
          /\ UNCHANGED browser
       \/ \* new_page raises: nothing catches it and close is not called; the
          \* exit of the with block of line 256 stops Playwright
          /\ Fault
          /\ browser' = "stopped"
          /\ pc' = "crashed"
    /\ UNCHANGED <<runVars, queueVars, cur, crawl_result, db_documents,
                   db_status_message, PROCESSED_FILE_URLS, fetchVars, close_calls,
                   histVars, normVars, clickVars, scratch_files, parseVars>>

\* fetcher.py lines 262-267: navigation and the first scroll
Goto ==
    /\ pc = "goto"
    /\ \/ /\ NoFault
          /\ dom' = web[cur.url].markup
          /\ linked' = linked \cup LinkedFiles(cur.url, dom')
          /\ pc' = "clicks"
       \/ \* page.goto or page.evaluate raises
          /\ Fault
          /\ pc' = "except"
          /\ UNCHANGED <<dom, linked>>
    /\ newly_discovered_links' = {}
    /\ UNCHANGED <<runVars, queueVars, cur, crawl_result, db_documents,
                   db_status_message, PROCESSED_FILE_URLS, all_links,
                   incremental_page_links, scraped_files, file_iter, sessVars,
                   frontier_log, fetch_log, file_log, delays, normVars, clickVars, scratch_files, parseVars>>

\* fetcher.py lines 270-282: simulate_clicks_on_tabs, whose clicks add the
\* anchors of reveal to the DOM, then the split of the new links
Clicks ==
    /\ pc = "clicks"
    /\ \/ \* page.content() of line 132 raises, outside the try of line 135
          /\ Fault
          /\ pc' = "except"
          /\ UNCHANGED <<dom, newly_discovered_links, incremental_page_links,
                         scraped_files, file_iter, linked>>
       \/ \E reveal \in {web[cur.url].reveal} :
             LET links_before == extract_links(dom, cur.url)
                 links_after == extract_links(dom \cup reveal, cur.url)
                 new_links == links_after \ links_before
             IN  /\ dom' = dom \cup reveal
                 /\ linked' = linked \cup LinkedFiles(cur.url, reveal)
                 /\ newly_discovered_links' = newly_discovered_links \cup new_links
                 /\ \/ \* simulate_clicks_on_tabs returns
                       /\ NoFault
                       /\ scraped_files' = Bound(<<>>)
                       /\ IF new_links # {}
                          THEN /\ file_iter' = FileLinks(new_links)
                               /\ incremental_page_links' =
                                      Bound(new_links \ FileLinks(new_links))
                          ELSE UNCHANGED <<file_iter, incremental_page_links>>
                       /\ pc' = "files"
                    \/ \* the scroll of lines 182-183 after the clicks raises
                       /\ Fault
                       /\ pc' = "except"
                       /\ UNCHANGED <<scraped_files, file_iter,
                                      incremental_page_links>>
    /\ UNCHANGED <<runVars, queueVars, cur, crawl_result, db_documents,
                   db_status_message, PROCESSED_FILE_URLS, all_links, sessVars,
                   frontier_log, fetch_log, file_log, delays, normVars, clickVars, scratch_files, parseVars>>

\* fetcher.py lines 284-295: the dynamic path's file loop, inside the try
DynamicFile ==
    /\ pc = "files"
    /\ FileStep("except")
    /\ UNCHANGED <<runVars, queueVars, cur, crawl_result, db_documents,
                   db_status_message, dom, all_links, newly_discovered_links,
                   incremental_page_links, sessVars, frontier_log, fetch_log,
                   linked, delays, normVars, clickVars, parseVars>>

\* fetcher.py lines 298-322: the final capture, the consolidation of the
\* links, browser.close() and the return
Capture ==
    /\ pc = "files"
    /\ file_iter = {}
    /\ \/ \* page.content() raises
          /\ Fault
          /\ pc' = "except"
          /\ UNCHANGED <<crawl_result, fetchVars, sessVars>>
       \/ /\ NoFault
          /\ IF incremental_page_links = Unbound
             THEN \* line 306 reads a local that line 282 never bound
                  /\ pc' = "except"
                  /\ UNCHANGED <<crawl_result, fetchVars, sessVars>>
             ELSE LET all_final_links == extract_links(dom, cur.url)
                      page_links ==
                          incremental_page_links[1]
                              \cup (all_final_links \ FileLinks(all_final_links))
                  IN  /\ browser' = "closed"
                      /\ close_calls' = close_calls + 1
                      /\ crawl_result' = OkResult("DYNAMIC_HTML", page_links,
                                                  scraped_files[1])
                      /\ DropFetchLocals
                      /\ UNCHANGED dom
                      /\ pc' = "store"
    /\ UNCHANGED <<runVars, queueVars, cur, db_documents, db_status_message,
                   PROCESSED_FILE_URLS, histVars, normVars, clickVars, scratch_files, parseVars>>

\* The mutant of Except that returns the empty defaults whatever was done.
ExceptForgets ==
    /\ pc = "except"
    /\ browser' = "closed"
    /\ close_calls' = close_calls + 1
    /\ crawl_result' = ErrorResult("Playwright failed", {}, <<>>)
    /\ DropFetchLocals
    /\ pc' = "store"
    /\ UNCHANGED <<runVars, queueVars, cur, db_documents, db_status_message,
                   PROCESSED_FILE_URLS, dom, histVars, faults, normVars, clickVars, scratch_files, parseVars>>

\* fetcher.py lines 324-328: the except clause of the dynamic path
Except ==
    /\ pc = "except"
    /\ browser' = "closed"
    /\ close_calls' = close_calls + 1
    /\ crawl_result' =
           ErrorResult("Playwright failed",
                       IF incremental_page_links = Unbound THEN {}
                       ELSE incremental_page_links[1],
                       IF scraped_files = Unbound THEN <<>> ELSE scraped_files[1])
    /\ DropFetchLocals
    /\ pc' = "store"
    /\ UNCHANGED <<runVars, queueVars, cur, db_documents, db_status_message,
                   PROCESSED_FILE_URLS, dom, histVars, faults, normVars, clickVars, scratch_files, parseVars>>

(***************************************************************************)
(* run_system after the fetch                                              *)
(***************************************************************************)
\* The mutant of Store that lets the exception of insert_data leave run_system.
StoreRaises ==
    /\ pc = "store"
    /\ db_documents' = Append(db_documents, DbDocument(cur, crawl_result))
    /\ \/ NoFault /\ db_status_message' = DbDocument(cur, crawl_result).status
                  /\ pc' = "enqueue"
       \/ Fault /\ db_status_message' = "DB_INSERT_FAILED" /\ pc' = "enqueue"
       \/ Fault /\ db_status_message' = "DB_CRITICAL_ERROR" /\ pc' = "crashed"
    /\ UNCHANGED <<runVars, queueVars, cur, crawl_result, PROCESSED_FILE_URLS,
                   fetchVars, sessVars, histVars, normVars, clickVars, scratch_files, parseVars>>

\* main.py lines 102-137: the document is built and handed to insert_data,
\* which returns an id, returns None or raises
Store ==
    /\ pc = "store"
    /\ db_documents' = Append(db_documents, DbDocument(cur, crawl_result))
    /\ \/ NoFault /\ db_status_message' = DbDocument(cur, crawl_result).status
       \/ Fault /\ db_status_message' = "DB_INSERT_FAILED"
       \/ Fault /\ db_status_message' = "DB_CRITICAL_ERROR"
    /\ pc' = "enqueue"
    /\ UNCHANGED <<runVars, queueVars, cur, crawl_result, PROCESSED_FILE_URLS,
                   fetchVars, sessVars, histVars, normVars, clickVars, scratch_files, parseVars>>

\* main.py lines 140-167: the links of the result are queued, in the order
\* in which the set yields them
Enqueue ==
    /\ pc = "enqueue"
    /\ IF crawl_result.links # {} /\ DepthAllowed(cur.depth + 1, MAX_CRAWL_DEPTH)
       THEN \E order \in Orders(crawl_result.links) :
               LET f == EnqueueLoop(order, 1, cur, visited_urls,
                                    Frontier(crawl_queue, queued_urls, frontier_log))
               IN  /\ crawl_queue' = f.q
                   /\ queued_urls' = f.queued
                   /\ frontier_log' = f.log
       ELSE UNCHANGED <<crawl_queue, queued_urls, frontier_log>>
    /\ pc' = "delay"
    /\ UNCHANGED <<runVars, visited_urls, cur, crawl_result, db_documents,
                   db_status_message, PROCESSED_FILE_URLS, fetchVars, sessVars,
                   fetch_log, file_log, linked, delays, faults, normVars, clickVars, scratch_files, parseVars>>

\* The mutant of Delay that sleeps only after a fetch that worked.
DelayOnlyAfterSuccess ==
    /\ pc = "delay"
    /\ delays' = IF crawl_result.error = "" THEN delays + 1 ELSE delays
    /\ pc' = "loop"
    /\ UNCHANGED <<runVars, queueVars, cur, crawl_result, db_documents,
                   db_status_message,
                   PROCESSED_FILE_URLS, fetchVars, sessVars, frontier_log,
                   fetch_log, file_log, linked, faults, normVars, clickVars, scratch_files, parseVars>>

\* main.py line 170: time.sleep(CRAWL_DELAY_SECONDS)
Delay ==
    /\ pc = "delay"
    /\ delays' = delays + 1
    /\ pc' = "loop"
    /\ UNCHANGED <<runVars, queueVars, cur, crawl_result, db_documents,
                   db_status_message,
                   PROCESSED_FILE_URLS, fetchVars, sessVars, frontier_log,
                   fetch_log, file_log, linked, faults, normVars, clickVars, scratch_files, parseVars>>

Next ==
    \/ Start
    \/ Dequeue
    \/ Finish
    \/ StaticGet
    \/ StaticFile
    \/ StaticReturn
    \/ Launch
    \/ NewPage
    \/ Goto
    \/ Clicks
    \/ DynamicFile
    \/ Capture
    \/ Except
    \/ Store
    \/ Enqueue
    \/ Delay

Spec == Init /\ [][Next]_vars

(***************************************************************************)
(* normalize_url as a function of arbitrary strings                        *)
(***************************************************************************)
\* A letter, an upper-case letter, a scheme character that is no letter, and
\* the delimiters of urlsplit.
NormAlphabet == {"a", "A", ".", ":", "/", "?", "#"}

StringsUpTo(n) == UNION {[1..k -> NormAlphabet] : k \in 0..n}

InitNorm ==
    /\ pc = "norm"
    /\ MAX_CRAWL_DEPTH = 0
    /\ INPUT_LINK = <<>>
    /\ db_connected = TRUE
    /\ web = PlainWeb
    /\ layout = <<>>
    /\ InitCrawlState
    /\ nu_url \in StringsUpTo(MaxLen)
    /\ nu_prev = nu_url
    /\ nu_calls = 0

\* main.py lines 24-34: one more call, on the result of the last one
Normalize ==
    /\ pc = "norm"
    /\ nu_calls < NormCalls
    /\ nu_prev' = nu_url
    /\ nu_url' = normalize_url(nu_url)
    /\ nu_calls' = nu_calls + 1
    /\ UNCHANGED <<pc, runVars, queueVars, cur, crawl_result, db_documents,
                   db_status_message, PROCESSED_FILE_URLS, fetchVars, sessVars,
                   histVars, faults, clickVars, scratch_files, parseVars>>

NextNorm == Normalize

SpecNorm == InitNorm /\ [][NextNorm]_vars

(***************************************************************************)
(* simulate_clicks_on_tabs, control by control, on sibling pages that hold *)
(* the same controls                                                       *)
(***************************************************************************)
\* how many of the selectors of tab_selectors are modelled, and how many
\* sibling pages one run fetches
NumSelectors == 2
NumPages == 2

\* A control: its inner text, whether it is the active one, which call on it
\* raises ("inspect": inner_text or evaluate, "click": click), and the anchors
\* its panel shows once it is clicked.
Control(text, active, fails, reveal) ==
    [text |-> text, active |-> active, fails |-> fails, reveal |-> reveal]

Tab1 == Control("t1", FALSE, "none", {U_a_q})
Tab2 == Control("t2", FALSE, "none", {U_a_q, U_a_zip})
Tab3 == Control("t3", FALSE, "none", {U_a_pdf})
ActiveTab == Control("t2", TRUE, "none", {U_a_zip})
NoText == Control("", FALSE, "none", {U_a_zip})
Stuck == Control("s", FALSE, "click", {})
Broken == Control("b", FALSE, "inspect", {})

\* The elements one selector may find, in document order.
ElementLists == { <<>>,
                  <<Tab1, Tab2>>,
                  <<Tab1, Tab1>>,
                  <<Stuck, Tab2>>,
                  <<Broken, Tab1>>,
                  <<ActiveTab, NoText, Tab3>> }

Layouts == [1..NumSelectors -> ElementLists]

\* The markup of the sibling pages before any click, and their URLs.
SimMarkup == BackMarkup
SimPageUrl(n) == IF n = 1 THEN NormalizedOf[U_a] ELSE NormalizedOf[U_a_q]
SimEntry(n) == [url |-> SimPageUrl(n), depth |-> 0, base |-> NetlocOf[SimPageUrl(n)]]

\* fetcher.py line 142
ElementKey(selector, control) == <<selector, control.text>>

\* The mutant of NewLinks that forgets the baseline.
NewLinksForgetsBaseline(links_after_click, before) == links_after_click

\* fetcher.py line 164
NewLinks(links_after_click, before) == links_after_click \ before

ClickEvent(what) ==
    [page |-> sim_page, selector |-> sel, index |-> elem,
     key |-> ElementKey(sel, layout[sel][elem]), what |-> what]

InitClicks ==
    /\ pc = "sim_enter"
    /\ MAX_CRAWL_DEPTH = 0
    /\ INPUT_LINK = <<>>
    /\ db_connected = TRUE
    /\ web = PlainWeb
    /\ layout \in Layouts
    /\ InitCrawlState
    /\ nu_url = <<>>
    /\ nu_prev = <<>>
    /\ nu_calls = 0

simUnchanged ==
    UNCHANGED <<runVars, queueVars, crawl_result, db_documents, db_status_message,
                PROCESSED_FILE_URLS, all_links, incremental_page_links,
                scraped_files, file_iter, sessVars, histVars, faults, normVars,
                layout, GLOBAL_CLICKED_ELEMENTS, scratch_files, parseVars>>

\* fetcher.py line 267 and lines 128-132: the call for the next sibling page
SimEnter ==
    /\ pc = "sim_enter"
    /\ sim_page < NumPages
    /\ sim_page' = sim_page + 1
    /\ cur' = SimEntry(sim_page')
    /\ dom' = SimMarkup
    /\ newly_discovered_links' = {}
    /\ total_clicks' = 0
    /\ clicked_elements_key' = {}
    /\ links_before_click' = extract_links(SimMarkup, cur'.url)
    /\ baseline' = links_before_click'
    /\ observed' = {}
    /\ sel' = 1
    /\ elem' = 1
    /\ pc' = "sim_loop"
    /\ UNCHANGED click_log
    /\ simUnchanged

\* fetcher.py lines 139-178: one turn of the loop over the elements of the
\* current selector; an exception leaves the loop for the next selector
SimElement ==
    /\ pc = "sim_loop"
    /\ sel <= NumSelectors
    /\ elem <= Len(layout[sel])
    /\ LET control == layout[sel][elem]
           element_key == ElementKey(sel, control)
       IN  IF control.fails = "inspect"
           THEN /\ click_log' = Append(click_log, ClickEvent("raised"))
                /\ sel' = sel + 1
                /\ elem' = 1
                /\ UNCHANGED <<dom, newly_discovered_links, total_clicks,
                               clicked_elements_key, links_before_click, observed>>
           ELSE IF control.text = "" \/ element_key \in clicked_elements_key
           THEN /\ click_log' = Append(click_log, ClickEvent("skipped"))
                /\ elem' = elem + 1
                /\ UNCHANGED <<sel, dom, newly_discovered_links, total_clicks,
                               clicked_elements_key, links_before_click, observed>>
           ELSE IF control.active
           THEN /\ click_log' = Append(click_log, ClickEvent("active"))
                /\ elem' = elem + 1
                /\ UNCHANGED <<sel, dom, newly_discovered_links, total_clicks,
                               clicked_elements_key, links_before_click, observed>>
           ELSE IF control.fails = "click"
           THEN /\ click_log' = Append(click_log, ClickEvent("raised"))
                /\ sel' = sel + 1
                /\ elem' = 1
                /\ UNCHANGED <<dom, newly_discovered_links, total_clicks,
                               clicked_elements_key, links_before_click, observed>>
           ELSE \E links_after_click \in
                       {extract_links(SimMarkup \cup control.reveal, cur.url)} :
                   \E new_links \in {NewLinks(links_after_click, links_before_click)} :
                      /\ dom' = SimMarkup \cup control.reveal
                      /\ newly_discovered_links' = newly_discovered_links \cup new_links
                      /\ links_before_click' = links_before_click \cup new_links
                      /\ observed' = observed \cup links_after_click
                      /\ total_clicks' = total_clicks + 1
                      /\ clicked_elements_key' = clicked_elements_key \cup {element_key}
                      /\ click_log' = Append(click_log, ClickEvent("clicked"))
                      /\ elem' = elem + 1
                      /\ UNCHANGED sel
    /\ UNCHANGED <<pc, cur, sim_page, baseline>>
    /\ simUnchanged

\* fetcher.py line 134: the elements of the selector are exhausted
SimNextSelector ==
    /\ pc = "sim_loop"
    /\ sel <= NumSelectors
    /\ elem > Len(layout[sel])
    /\ sel' = sel + 1
    /\ elem' = 1
    /\ UNCHANGED <<pc, cur, dom, newly_discovered_links, sim_page, total_clicks,
                   clicked_elements_key, links_before_click, click_log, observed,
                   baseline>>
    /\ simUnchanged

\* fetcher.py lines 180-183: the selectors are exhausted and the call returns
SimReturn ==
    /\ pc = "sim_loop"
    /\ sel > NumSelectors
    /\ pc' = IF sim_page < NumPages THEN "sim_enter" ELSE "sim_done"
    /\ UNCHANGED <<cur, dom, newly_discovered_links, sim_page, sel, elem,
                   total_clicks, clicked_elements_key, links_before_click,
                   click_log, observed, baseline>>
    /\ simUnchanged

NextClicks ==
    \/ SimEnter
    \/ SimElement
    \/ SimNextSelector
    \/ SimReturn

SpecClicks == InitClicks /\ [][NextClicks]_vars

(***************************************************************************)
(* The frontier                                                            *)
(***************************************************************************)
QueuedInDeque == {crawl_queue[i].url : i \in DOMAIN crawl_queue}

\* C1: at every point of the crawl loop, visited_urls and queued_urls are
\* disjoint and queued_urls is exactly the set of the URLs held in crawl_queue.
C1_VisitedQueuedDisjoint ==
    /\ visited_urls \cap queued_urls = {}
    /\ queued_urls = QueuedInDeque

\* An iteration has ended with URLs waiting, after a fetch that returned a
\* link to a page already visited.
C1_Witness ==
    /\ pc = "loop"
    /\ queued_urls # {}
    /\ \E l \in crawl_result.links : NormalizedOf[l] \in visited_urls
    /\ DepthAllowed(cur.depth + 1, MAX_CRAWL_DEPTH)

\* C2: no normalized URL is appended to the frontier more than once in a run.
C2_NoUrlAppendedTwice ==
    \A i, j \in DOMAIN frontier_log :
        i # j => frontier_log[i].entry.url # frontier_log[j].entry.url

\* Two seeds of one normalized form gave one depth-0 entry, and a fetch has
\* returned a link to a URL that was waiting in the queue.
C2_Witness ==
    /\ pc = "delay"
    /\ Len(INPUT_LINK) = 2
    /\ Cardinality({i \in DOMAIN frontier_log : frontier_log[i].entry.depth = 0}) = 1
    /\ DepthAllowed(cur.depth + 1, MAX_CRAWL_DEPTH)
    /\ \E l \in crawl_result.links :
          \E i \in DOMAIN frontier_log :
             /\ frontier_log[i].entry.url = NormalizedOf[l]
             /\ frontier_log[i].parent # cur
             /\ NormalizedOf[l] \in queued_urls

\* C3: no entry deeper than MAX_CRAWL_DEPTH is handed to
\* fetch_content_and_links; every entry ever appended to the frontier has a
\* depth in 0..MAX_CRAWL_DEPTH, a seed depth 0 and a child its parent's depth
\* plus one.
C3_DepthBounded ==
    /\ \A i \in DOMAIN fetch_log : fetch_log[i].depth <= MAX_CRAWL_DEPTH
    /\ \A i \in DOMAIN frontier_log :
          LET e == frontier_log[i]
          IN  /\ e.entry.depth \in 0..MAX_CRAWL_DEPTH
              /\ e.entry.depth = IF e.parent = NoEntry THEN 0 ELSE e.parent.depth + 1

\* A page at depth MAX_CRAWL_DEPTH >= 1 was fetched and returned links, none
\* of which was appended.
C3_Witness ==
    /\ pc = "delay"
    /\ MAX_CRAWL_DEPTH >= 1
    /\ cur.depth = MAX_CRAWL_DEPTH
    /\ \E l \in crawl_result.links :
          /\ IsInternal(l, cur.base)
          /\ IsNew(NormalizedOf[l], visited_urls, queued_urls)
          /\ ~IsSocialOf[NormalizedOf[l]]
    /\ \A i \in DOMAIN frontier_log : frontier_log[i].parent # cur

(***************************************************************************)
(* Failures                                                                *)
(***************************************************************************)
\* run_system has ended: the loop ran out of entries, or an exception left it.
Ended == pc \in {"done", "crashed"}

\* C4: every entry handed to the fetcher stays in visited_urls and gets its
\* record, with status FAILED when the fetch failed, and the crawl does not
\* end while the frontier holds entries.
C4_FailureNeverHalts ==
    /\ \A i \in DOMAIN fetch_log : fetch_log[i].url \in visited_urls
    /\ \A i \in DOMAIN db_documents :
          /\ db_documents[i].input_url = fetch_log[i].url
          /\ db_documents[i].status = "FAILED" <=> db_documents[i].error_message # ""
    /\ Ended => /\ crawl_queue = <<>>
                /\ Len(db_documents) = Len(fetch_log)

\* C5: no exception raised inside fetch_content_and_links reaches run_system.
C5_NothingEscapes == pc # "crashed"

(***************************************************************************)
(* Files                                                                   *)
(***************************************************************************)
Downloads(file_url) ==
    {i \in DOMAIN file_log :
        file_log[i].file = file_url /\ file_log[i].what = "downloaded"}

\* C6: in one run a file URL is downloaded and extracted at most once.
C6_DownloadedAtMostOnce ==
    \A file_url \in Links : Cardinality(Downloads(file_url)) <= 1

\* A second page met a file link that an earlier page had downloaded, and
\* skipped it.
C6_Witness ==
    \E i, j \in DOMAIN file_log :
        /\ i < j
        /\ file_log[i].file = file_log[j].file
        /\ file_log[i].page # file_log[j].page
        /\ file_log[i].what = "downloaded"
        /\ file_log[j].what = "skipped"

\* The content records of a file in the documents handed to storage.
ContentRecords(file_url) ==
    {ik \in (DOMAIN db_documents) \X (1..Cardinality(Links)) :
        /\ ik[2] \in DOMAIN db_documents[ik[1]].scraped_files
        /\ db_documents[ik[1]].scraped_files[ik[2]].file_url = file_url}

\* C7: when two pages hold the same PDF link in their markup, both are
\* fetched with success and no request or download fails, the records of the
\* run hold exactly one content record for that PDF.
C7_OneRecordPerSharedPdf ==
    (/\ pc = "done"
     /\ faults = 0
     /\ \A i \in DOMAIN db_documents : db_documents[i].status = "SUCCESS") =>
        \A file_url \in {l \in Links : IsPdfOf[l]} :
            (\E p1, p2 \in visited_urls :
                p1 # p2 /\ <<p1, file_url>> \in linked /\ <<p2, file_url>> \in linked)
            => Cardinality(ContentRecords(file_url)) = 1

(***************************************************************************)
(* The browser session                                                     *)
(***************************************************************************)
\* C8: when a fetch that opened a browser has ended, by a return or by an
\* exception, the browser is closed and close was called exactly once.
C8_ClosedExactlyOnce ==
    (pc \in {"store", "crashed"} /\ browser # "none") =>
        (browser = "closed" /\ close_calls = 1)

(***************************************************************************)
(* Link discovery                                                          *)
(***************************************************************************)
\* The page links of the markup the fetch ended with.
PageLinks == extract_links(dom, cur.url) \ FileLinks(extract_links(dom, cur.url))

\* C9: when nothing fails while a page at depth d, d + 1 <= MAX_CRAWL_DEPTH, is
\* fetched, the step appends one entry of depth d + 1 for each distinct
\* normalized form of the page's links that are internal, not social and
\* neither visited nor queued, and nothing else.
C9_EnqueuesExactlyTheNewInternalLinks ==
    [][(pc = "enqueue" /\ pc' = "delay" /\ faults = 0
            /\ DepthAllowed(cur.depth + 1, MAX_CRAWL_DEPTH))
       => LET expected ==
                  {NormalizedOf[l] :
                      l \in {k \in PageLinks :
                                /\ IsInternal(k, cur.base)
                                /\ ~IsSocialOf[NormalizedOf[k]]
                                /\ IsNew(NormalizedOf[k], visited_urls, queued_urls)}}
              added == (Len(frontier_log) + 1)..Len(frontier_log')
          IN  /\ Cardinality(added) = Cardinality(expected)
              /\ {frontier_log'[i].entry : i \in added}
                     = {[url |-> u, depth |-> cur.depth + 1, base |-> cur.base]
                           : u \in expected}
              /\ crawl_queue' = crawl_queue
                                  \o [i \in 1..Cardinality(added) |->
                                        frontier_log'[Len(frontier_log) + i].entry]
      ]_vars

(***************************************************************************)
(* normalize_url                                                           *)
(***************************************************************************)
\* C10: normalize_url(normalize_url(u)) = normalize_url(u) for every string u.
C10_Idempotent == nu_calls >= 2 => nu_url = nu_prev

(***************************************************************************)
(* The origin domain                                                       *)
(***************************************************************************)
\* C11: every entry appended to the frontier has the host of its URL as its
\* origin domain, and a child entry has the origin domain of its parent.
C11_OriginDomainKept ==
    \A i \in DOMAIN frontier_log :
        LET e == frontier_log[i]
        IN  /\ NetlocOf[e.entry.url] = e.entry.base
            /\ e.parent # NoEntry => e.entry.base = e.parent.base

\* In a run with seeds of two hosts, a page of the first seed that links a
\* page of the second seed's host was fetched and its links were queued.
C11_Witness ==
    /\ pc = "delay"
    /\ crawl_result.error = ""
    /\ U_b_p \in dom
    /\ cur.base # NetlocOf[U_b_p]
    /\ \E i \in DOMAIN frontier_log : frontier_log[i].parent = cur
    /\ \E i \in DOMAIN frontier_log : frontier_log[i].entry.base = NetlocOf[U_b_p]

(***************************************************************************)
(* Storage failures                                                        *)
(***************************************************************************)
\* main.py lines 124 and 127: the status strings of a failed insert
DbFailures == {"DB_INSERT_FAILED", "DB_CRITICAL_ERROR"}

\* C12: when insert_data returns None or raises, the failure becomes a status
\* string and run_system goes on: the links of the page are queued as after a
\* successful insert, the delay runs, and the loop takes the next entry.
C12_InsertFailureGoesOn ==
    [][/\ (pc = "store" /\ db_status_message' \in DbFailures) => pc' = "enqueue"
       /\ (pc = "enqueue" /\ db_status_message \in DbFailures) =>
             /\ pc' = "delay"
             /\ (crawl_result.links # {}
                    /\ DepthAllowed(cur.depth + 1, MAX_CRAWL_DEPTH)) =>
                   \E order \in Orders(crawl_result.links) :
                      LET f == EnqueueLoop(order, 1, cur, visited_urls,
                                   Frontier(crawl_queue, queued_urls, frontier_log))
                      IN  crawl_queue' = f.q /\ queued_urls' = f.queued
       /\ (pc = "delay" /\ db_status_message \in DbFailures) =>
             pc' = "loop" /\ delays' = delays + 1
      ]_vars

\* After a failed insert the links of the page have been queued.
C12_Witness ==
    /\ pc = "delay"
    /\ db_status_message \in DbFailures
    /\ \E i \in DOMAIN frontier_log : frontier_log[i].parent = cur

(***************************************************************************)
(* The connectivity probe                                                  *)
(***************************************************************************)
\* The seeds that no iteration of the loop has taken up.
UnprocessedSeeds ==
    {NormalizedOf[INPUT_LINK[i]] : i \in DOMAIN INPUT_LINK} \ visited_urls

\* C13: when is_connected() is false the run ends with no seed queued, no
\* fetch and no insert; and a run that has ended with unprocessed seeds is a
\* run whose probe failed.
C13_ProbeIsTheOnlyFatalCondition ==
    /\ pc = "exit" =>
          /\ ~db_connected
          /\ frontier_log = <<>> /\ crawl_queue = <<>>
          /\ fetch_log = <<>>
          /\ db_documents = <<>>
    /\ (pc \in {"exit", "done", "crashed"} /\ UnprocessedSeeds # {}) => ~db_connected

(***************************************************************************)
(* The politeness delay                                                    *)
(***************************************************************************)
\* C14: no sleep precedes the first call of fetch_content_and_links, and
\* exactly one sleep lies between two consecutive calls.
C14_OneDelayBetweenFetches ==
    \A i \in DOMAIN fetch_log :
        fetch_log[i].delays_before = IF i = 1 THEN 0 ELSE 1

\* Three fetches were dispatched, after one that failed and after one that
\* worked, the last of them after a failed insert.
C14_Witness ==
    /\ Len(fetch_log) >= 3
    /\ Len(db_documents) = Len(fetch_log) - 1
    /\ db_status_message \in DbFailures
    /\ \E i, j \in 1..(Len(fetch_log) - 1) :
          /\ db_documents[i].status = "FAILED"
          /\ db_documents[j].status = "SUCCESS"

(***************************************************************************)
(* The result of a fetch                                                   *)
(***************************************************************************)
\* The page links that the clicks added to the markup of the current page.
RevealedPageLinks ==
    LET revealed == extract_links(dom, cur.url)
                        \ extract_links(web[cur.url].markup, cur.url)
    IN  revealed \ FileLinks(revealed)

\* The files downloaded during the fetch of the current page, in order.
DownloadedHere ==
    LET Here(e) == e.page = cur.url /\ e.what = "downloaded"
        events == SelectSeq(file_log, Here)
    IN  [i \in DOMAIN events |-> events[i].file]

\* C15: a result returned by fetch_content_and_links carries a set of links
\* and a list of file records; the file records are those of the files
\* downloaded during the fetch, in order, and the links of an error result are
\* page links that the clicks revealed before the failure.
C15_ResultKeepsWhatWasDone ==
    pc \in {"store", "enqueue", "delay"} =>
        /\ crawl_result.links \subseteq Links
        /\ [i \in DOMAIN crawl_result.scraped_files |->
                crawl_result.scraped_files[i].file_url] = DownloadedHere
        /\ crawl_result.error # "" => crawl_result.links \subseteq RevealedPageLinks

\* A dynamic fetch failed after its clicks had revealed a page link and a
\* file had been downloaded: the result holds both.
C15_Witness ==
    /\ pc = "store"
    /\ crawl_result.error = "Playwright failed"
    /\ crawl_result.scraped_files # <<>>
    /\ crawl_result.links # {}

(***************************************************************************)
(* The revelation engine                                                   *)
(***************************************************************************)
Clicked == {i \in DOMAIN click_log : click_log[i].what = "clicked"}

\* The call of simulate_clicks_on_tabs for the current page is about to return.
SimAtReturn == pc = "sim_loop" /\ sel > NumSelectors

\* C16: a control that was clicked is in the run-wide registry, and no control
\* identifier is clicked twice in one run, on the same page or on a later one.
C16_ClickedOncePerRun ==
    /\ \A i \in Clicked : click_log[i].key \in GLOBAL_CLICKED_ELEMENTS
    /\ \A i, j \in Clicked : i # j => click_log[i].key # click_log[j].key

\* C17: when the call returns, every element that every selector found on the
\* page has been tried, whatever the elements before it did.
C17_EveryCandidateTried ==
    SimAtReturn =>
        \A s \in 1..NumSelectors :
            \A k \in DOMAIN layout[s] :
                \E i \in DOMAIN click_log :
                    /\ click_log[i].page = sim_page
                    /\ click_log[i].selector = s
                    /\ click_log[i].index = k

\* C18: the incremental-discovery set is the union of the link sets seen
\* after the clicks made so far, minus the link set seen before the first.
C18_DiscoveryIsUnionMinusBaseline ==
    pc \in {"sim_loop", "sim_enter", "sim_done"} =>
        newly_discovered_links = observed \ baseline

\* Three clicks were made on one page: two revealed the same new link, one of
\* them another new link as well, and one only a link of the baseline.
C18_Witness ==
    /\ SimAtReturn
    /\ total_clicks >= 3
    /\ Cardinality(newly_discovered_links) >= 2
    /\ \E i \in Clicked :
          /\ click_log[i].page = sim_page
          /\ extract_links(layout[click_log[i].selector][click_log[i].index].reveal,
                           cur.url) \subseteq baseline

(***************************************************************************)
(* Scratch files                                                           *)
(***************************************************************************)
\* C19: once a file link has been handled, whatever its type and whatever
\* became of its download and extraction, no file of it lies under
\* DOWNLOAD_DIR.
C19_NoScratchFileRemains == scratch_files = {}

(***************************************************************************)
(* The registry of processed files                                         *)
(***************************************************************************)
\* The record of file_url lies in the list of the fetch that is running.
HeldByFetch(file_url) ==
    /\ pc \notin {"crashed", "done"}
    /\ scraped_files # Unbound
    /\ \E i \in DOMAIN scraped_files[1] : scraped_files[1][i].file_url = file_url

\* The record of file_url lies in the result that the fetch returned.
HeldByResult(file_url) ==
    \E i \in DOMAIN crawl_result.scraped_files :
        crawl_result.scraped_files[i].file_url = file_url

\* C20: every URL of PROCESSED_FILE_URLS was downloaded and has a content
\* record, which is in the list of the running fetch, in the result it
\* returned or in the document built for its page, also when the fetch failed
\* after the record was made; and a file link is skipped only when an earlier
\* download of it succeeded, so that a failed download is tried again.
C20_RegisteredFilesReachTheOutput ==
    /\ \A file_url \in PROCESSED_FILE_URLS :
          /\ Downloads(file_url) # {}
          /\ \/ HeldByFetch(file_url)
             \/ HeldByResult(file_url)
             \/ ContentRecords(file_url) # {}
    /\ \A j \in DOMAIN file_log :
          file_log[j].what = "skipped" =>
              \E i \in 1..(j - 1) :
                  /\ file_log[i].file = file_log[j].file
                  /\ file_log[i].what = "downloaded"

(***************************************************************************)
(* Failures of one file                                                    *)
(***************************************************************************)
\* The documents built for page_url.
DocumentsOf(page_url) ==
    {i \in DOMAIN db_documents : db_documents[i].input_url = page_url}

\* The document holds a record of file_url whose content is null.
HasNullRecord(document, file_url) ==
    \E k \in DOMAIN document.scraped_files :
        /\ document.scraped_files[k].file_url = file_url
        /\ document.scraped_files[k].content_text = "None"

\* C21: when the download of a file of a page failed with a request error,
\* the document of the page holds a record of that file with null content.
C21_FailedFileHasNullRecord ==
    \A j \in DOMAIN file_log :
        file_log[j].what = "download_failed" =>
            \A i \in DocumentsOf(file_log[j].page) :
                HasNullRecord(db_documents[i], file_log[j].file)

(***************************************************************************)
(* The result of a dynamic fetch that met no failure                       *)
(***************************************************************************)
\* C22: when navigation and the clicks have succeeded, the files are done and
\* the capture of the final markup succeeds, the fetch returns a result
\* without error whose links are the page links of the final markup, the
\* revealed ones among them, however many links the clicks revealed.
C22_DynamicResultHoldsThePageLinks ==
    [][(pc = "files" /\ file_iter = {} /\ faults' = faults)
       => /\ pc' = "store"
          /\ crawl_result'.error = ""
          /\ crawl_result'.links = PageLinks
          /\ RevealedPageLinks \subseteq crawl_result'.links]_vars

(***************************************************************************)
(* parser.py: contextual_extract and the schema loop of parse_html_content *)
(***************************************************************************)
WindowChars == 1     \* window_chars: characters of context on each side of a match
MaxText == 5         \* longest page text handed to parse_html_content

\* The characters of a page text: a keyword in both cases, a digit, a blank.
TextAlphabet == {"k", "K", "1", " "}
Whitespace == {" "}

\* The value_pattern of a schema entry: missing (None), one that re.compile
\* rejects, or a pattern [...]+ over a class of characters.
NoPattern == [kind |-> "missing", class |-> {}]
InvalidPattern == [kind |-> "invalid", class |-> {}]
DigitRun == [kind |-> "class", class |-> {"1"}]
PaddedRun == [kind |-> "class", class |-> {"1", " "}]

\* None, and a value that is not None
None == <<>>
Some(v) == <<v>>

\* The elements of a set of numbers in ascending order.
Ascending(S) ==
    [i \in 1..Cardinality(S) |->
        CHOOSE x \in S : Cardinality({y \in S : y < x}) = i - 1]

\* str.strip()
Strip(s) ==
    LET keep == {i \in DOMAIN s : s[i] \notin Whitespace}
    IN  IF keep = {} THEN <<>>
        ELSE SubSeq(s, CHOOSE i \in keep : \A j \in keep : i <= j,
                       CHOOSE i \in keep : \A j \in keep : j <= i)

\* regex.finditer(text) for a pattern [class]+ : the maximal runs of
\* characters of the class, from left to right, as <<first, last>>
finditer(class, text) ==
    LET In(i) == i \in DOMAIN text /\ text[i] \in class
        starts == {i \in DOMAIN text : In(i) /\ ~In(i - 1)}
        EndOf(i) == CHOOSE j \in i..Len(text) :
                        (\A k \in i..j : In(k)) /\ ~In(j + 1)
        ordered == Ascending(starts)
    IN  [n \in DOMAIN ordered |-> <<ordered[n], EndOf(ordered[n])>>]

\* parser.py lines 227-230: the lowered text around a match
ContextWindow(text, span) ==
    LET max0 == IF span[1] - 1 - WindowChars > 0
                THEN span[1] - 1 - WindowChars ELSE 0
        min_len == IF span[2] + WindowChars < Len(text)
                   THEN span[2] + WindowChars ELSE Len(text)
    IN  Lower(SubSeq(text, max0 + 1, min_len))

\* parser.py lines 232-240: one point for each keyword found in the window
Score(text, span, keywords) ==
    IF keywords # <<>>
    THEN Cardinality({n \in DOMAIN keywords :
                         Contains(ContextWindow(text, span), Lower(keywords[n]))})
    ELSE 1

\* parser.py line 223: match.group(0).strip()
ValueOf(text, span) == Strip(SubSeq(text, span[1], span[2]))

\* parser.py lines 221-246: the loop over the matches
ScoredCandidates(text, class, keywords) ==
    LET matches == finditer(class, text)
        candidates == [n \in DOMAIN matches |->
                          [value |-> ValueOf(text, matches[n]),
                           score |-> IF ValueOf(text, matches[n]) = <<>> THEN 0
                                     ELSE Score(text, matches[n], keywords)]]
        Kept(c) == c.value # <<>> /\ c.score > 0
    IN  SelectSeq(candidates, Kept)

\* The mutant of BestOf that lets a later candidate of equal score win.
BestOfLastWins(candidates) ==
    candidates[CHOOSE i \in DOMAIN candidates :
                  /\ \A j \in DOMAIN candidates : candidates[j].score <= candidates[i].score
                  /\ \A j \in DOMAIN candidates :
                        j > i => candidates[j].score < candidates[i].score]

\* parser.py line 253: max(scored_candidates, key=score), the first of the
\* candidates of highest score
BestOf(candidates) ==
    candidates[CHOOSE i \in DOMAIN candidates :
                  /\ \A j \in DOMAIN candidates : candidates[j].score <= candidates[i].score
                  /\ \A j \in DOMAIN candidates :
                        j < i => candidates[j].score < candidates[i].score]

\* The mutant of UniqueValues that never fills the set seen.
RECURSIVE UniqueValuesForgetsSeen(_, _, _)
UniqueValuesForgetsSeen(candidates, seen, results) ==
    IF candidates = <<>> THEN results
    ELSE UniqueValuesForgetsSeen(Tail(candidates), seen,
                                 Append(results, Head(candidates).value))

\* parser.py lines 256-263: the values in order, each one once
RECURSIVE UniqueValues(_, _, _)
UniqueValues(candidates, seen, results) ==
    IF candidates = <<>> THEN results
    ELSE LET v == Head(candidates).value
         IN  IF v \in seen
             THEN UniqueValues(Tail(candidates), seen, results)
             ELSE UniqueValues(Tail(candidates), seen \cup {v}, Append(results, v))

\* parser.py lines 182-265
contextual_extract(text, variable_config) ==
    IF text = <<>> THEN None
    ELSE IF variable_config.value_pattern.kind # "class" THEN None
    ELSE \* one evaluation of the loop over the matches
         TheOne({IF scored_candidates = <<>> THEN None
                 ELSE IF ~variable_config.multi_value
                      THEN Some(BestOf(scored_candidates).value)
                      ELSE Some(UniqueValues(scored_candidates, {}, <<>>))
                   : scored_candidates \in
                       {ScoredCandidates(text, variable_config.value_pattern.class,
                                         variable_config.keywords)}})

\* One item of GLOBAL_EXTRACTION_SCHEMA.
SchemaItem(var_name, keywords, value_pattern, multi_value) ==
    [var_name |-> var_name,
     config |-> [keywords |-> keywords, value_pattern |-> value_pattern,
                 multi_value |-> multi_value]]

\* contextual_data[var_name] = result
WithKey(data, var_name, result) ==
    [n \in DOMAIN data \cup {var_name} |-> IF n = var_name THEN result ELSE data[n]]

\* The mutant of SchemaLoop in which an item without a usable pattern ends
\* the loop.
RECURSIVE SchemaLoopStopsAtBadItem(_, _, _)
SchemaLoopStopsAtBadItem(text, items, data) ==
    IF items = <<>> THEN data
    ELSE IF Head(items).config.value_pattern.kind # "class" THEN data
    ELSE LET result == contextual_extract(text, Head(items).config)
         IN  SchemaLoopStopsAtBadItem(text, Tail(items),
                 IF result # None THEN WithKey(data, Head(items).var_name, result[1])
                 ELSE data)

\* parser.py lines 91-103: the loop over the items of the schema
RECURSIVE SchemaLoop(_, _, _)
SchemaLoop(text, items, data) ==
    IF items = <<>> THEN data
    ELSE LET result == contextual_extract(text, Head(items).config)
         IN  SchemaLoop(text, Tail(items),
                 IF result # None THEN WithKey(data, Head(items).var_name, result[1])
                 ELSE data)

\* The items a schema of this model is made of: single-valued and
\* multi-valued, with and without keywords, and two without a usable pattern.
ValidItems ==
    { SchemaItem("serial", <<>>, PaddedRun, FALSE),
      SchemaItem("date_posted", << <<"K">>, <<"k", "1">> >>, DigitRun, FALSE),
      SchemaItem("price", << <<"k">> >>, DigitRun, TRUE),
      SchemaItem("specialities", <<>>, PaddedRun, TRUE) }
BadItems ==
    { SchemaItem("unset", << <<"k">> >>, NoPattern, TRUE),
      SchemaItem("broken", << <<"k">> >>, InvalidPattern, FALSE) }
Schemas ==
    {<<item>> : item \in ValidItems \cup BadItems}
        \cup {<<bad, item>> : <<bad, item>> \in BadItems \X ValidItems}
        \cup {<<item, bad>> : <<item, bad>> \in ValidItems \X BadItems}

\* parser.py lines 38-51: the visible text, which get_text(strip=True) leaves
\* without blanks at its ends
Texts == {text \in UNION {[1..n -> TextAlphabet] : n \in 0..MaxText} :
             Strip(text) = text}

InitParse ==
    /\ pc = "parse"
    /\ MAX_CRAWL_DEPTH = 0
    /\ INPUT_LINK = <<>>
    /\ db_connected = TRUE
    /\ web = PlainWeb
    /\ layout = <<>>
    /\ crawl_queue = <<>>
    /\ visited_urls = {}
    /\ queued_urls = {}
    /\ cur = NoEntry
    /\ crawl_result = NoResult
    /\ db_documents = <<>>
    /\ db_status_message = ""
    /\ PROCESSED_FILE_URLS = {}
    /\ dom = {}
    /\ NoFetchLocals
    /\ browser = "none"
    /\ close_calls = 0
    /\ frontier_log = <<>>
    /\ fetch_log = <<>>
    /\ file_log = <<>>
    /\ linked = {}
    /\ delays = 0
    /\ faults = 0
    /\ scratch_files = {}
    /\ sim_page = 0
    /\ sel = 0
    /\ elem = 0
    /\ total_clicks = 0
    /\ clicked_elements_key = {}
    /\ GLOBAL_CLICKED_ELEMENTS = {}
    /\ links_before_click = {}
    /\ click_log = <<>>
    /\ observed = {}
    /\ baseline = {}
    /\ nu_url = <<>>
    /\ nu_prev = <<>>
    /\ nu_calls = 0
    /\ full_text \in Texts
    /\ GLOBAL_EXTRACTION_SCHEMA \in Schemas
    /\ contextual_data = <<>>

\* parser.py lines 57-110, from the visible text on
parse_html_content ==
    /\ pc = "parse"
    /\ contextual_data' = SchemaLoop(full_text, GLOBAL_EXTRACTION_SCHEMA, <<>>)
    /\ pc' = "parsed"
    /\ UNCHANGED <<runVars, queueVars, cur, crawl_result, db_documents,
                   db_status_message, PROCESSED_FILE_URLS, fetchVars, sessVars,
                   histVars, faults, normVars, clickVars, scratch_files,
                   full_text, GLOBAL_EXTRACTION_SCHEMA>>

NextParse == parse_html_content

SpecParse == InitParse /\ [][NextParse]_vars

(***************************************************************************)
(* The schema-driven extraction                                            *)
(***************************************************************************)
\* The item has no pattern, or one that does not compile.
HasNoUsablePattern(item) == item.config.value_pattern.kind \in {"missing", "invalid"}

\* The schema without its i-th item.
WithoutItem(items, i) ==
    [k \in 1..(Len(items) - 1) |-> IF k < i THEN items[k] ELSE items[k + 1]]

\* C23: an item whose value_pattern is missing or does not compile puts no
\* key into contextual_data, and the keys and values of the other items are
\* those that the schema without that item yields: each other item's own
\* result, when it has one.
C23_BadItemIsIsolated ==
    pc = "parsed" =>
        \A i \in DOMAIN GLOBAL_EXTRACTION_SCHEMA :
            HasNoUsablePattern(GLOBAL_EXTRACTION_SCHEMA[i]) =>
                /\ GLOBAL_EXTRACTION_SCHEMA[i].var_name \notin DOMAIN contextual_data
                /\ contextual_data
                     = SchemaLoop(full_text, WithoutItem(GLOBAL_EXTRACTION_SCHEMA, i), <<>>)
                /\ \A j \in DOMAIN GLOBAL_EXTRACTION_SCHEMA \ {i} :
                      LET item == GLOBAL_EXTRACTION_SCHEMA[j]
                          result == contextual_extract(full_text, item.config)
                      IN  IF result = None
                          THEN item.var_name \notin DOMAIN contextual_data
                          ELSE /\ item.var_name \in DOMAIN contextual_data
                               /\ contextual_data[item.var_name] = result[1]

\* A schema of an item with an invalid pattern followed by a valid item was
\* applied, and the output holds the valid item's key only.
C23_Witness ==
    /\ pc = "parsed"
    /\ Len(GLOBAL_EXTRACTION_SCHEMA) = 2
    /\ GLOBAL_EXTRACTION_SCHEMA[1].config.value_pattern.kind = "invalid"
    /\ DOMAIN contextual_data = {GLOBAL_EXTRACTION_SCHEMA[2].var_name}

\* The matches of the item's pattern in the page text, from left to right.
MatchesOf(item) == finditer(item.config.value_pattern.class, full_text)

\* The matches whose window holds a keyword of the item (every match, when
\* the item has no keywords).
PositiveMatches(item) ==
    {n \in DOMAIN MatchesOf(item) :
        Score(full_text, MatchesOf(item)[n], item.config.keywords) > 0}

\* Those of them whose text is not empty once stripped.
SurvivingMatches(item) ==
    {n \in PositiveMatches(item) : ValueOf(full_text, MatchesOf(item)[n]) # <<>>}

\* Among the matches of pool, the first of those of highest score.
FirstOfHighestScore(item, pool) ==
    CHOOSE n \in pool :
        \A m \in pool :
            LET score_n == Score(full_text, MatchesOf(item)[n], item.config.keywords)
                score_m == Score(full_text, MatchesOf(item)[m], item.config.keywords)
            IN  score_m < score_n \/ (score_m = score_n /\ n <= m)

\* The single-valued items with a usable pattern that were applied.
SingleValuedItems ==
    {GLOBAL_EXTRACTION_SCHEMA[i] : i \in
        {k \in DOMAIN GLOBAL_EXTRACTION_SCHEMA :
            /\ ~HasNoUsablePattern(GLOBAL_EXTRACTION_SCHEMA[k])
            /\ ~GLOBAL_EXTRACTION_SCHEMA[k].config.multi_value}}

\* C24 as stated: a single-valued item yields the value of the first of the
\* matches of highest score among all matches of score > 0 (the first match,
\* when the item has no keywords), and nothing when no match has a score > 0.
C24_HighestScoringMatch ==
    pc = "parsed" =>
        \A item \in SingleValuedItems :
            IF PositiveMatches(item) = {}
            THEN item.var_name \notin DOMAIN contextual_data
            ELSE /\ item.var_name \in DOMAIN contextual_data
                 /\ contextual_data[item.var_name]
                      = ValueOf(full_text,
                                MatchesOf(item)[FirstOfHighestScore(item,
                                                    PositiveMatches(item))])

\* C24 as amended: a single-valued item yields the value of the first of the
\* matches of highest score among the matches of score > 0 whose stripped
\* text is not empty (the first such match, when the item has no keywords),
\* and nothing when there is no such match.
C24_HighestScoringSurvivingMatch ==
    pc = "parsed" =>
        \A item \in SingleValuedItems :
            IF SurvivingMatches(item) = {}
            THEN item.var_name \notin DOMAIN contextual_data
            ELSE /\ item.var_name \in DOMAIN contextual_data
                 /\ contextual_data[item.var_name]
                      = ValueOf(full_text,
                                MatchesOf(item)[FirstOfHighestScore(item,
                                                    SurvivingMatches(item))])

\* A single-valued item with keywords met a match of score 1 and then a match
\* of another value and of score 2, and the second one was returned.
C24_Witness ==
    /\ pc = "parsed"
    /\ \E item \in SingleValuedItems :
          /\ item.config.keywords # <<>>
          /\ \E m, n \in SurvivingMatches(item) :
                /\ m < n
                /\ Score(full_text, MatchesOf(item)[m], item.config.keywords) = 1
                /\ Score(full_text, MatchesOf(item)[n], item.config.keywords) = 2
                /\ ValueOf(full_text, MatchesOf(item)[m])
                     # ValueOf(full_text, MatchesOf(item)[n])
                /\ contextual_data[item.var_name]
                     = ValueOf(full_text, MatchesOf(item)[n])

\* The multi-valued items with a usable pattern that were applied.
MultiValuedItems ==
    {GLOBAL_EXTRACTION_SCHEMA[i] : i \in
        {k \in DOMAIN GLOBAL_EXTRACTION_SCHEMA :
            /\ ~HasNoUsablePattern(GLOBAL_EXTRACTION_SCHEMA[k])
            /\ GLOBAL_EXTRACTION_SCHEMA[k].config.multi_value}}

\* The list holds each value of the matches of pool once, in the order in
\* which the values first occur in the text.
ListsDistinctValuesOf(values, item, pool) ==
    LET value(n) == ValueOf(full_text, MatchesOf(item)[n])
        first(v) == CHOOSE n \in pool : value(n) = v /\ \A m \in pool : value(m) = v => n <= m
    IN  /\ \A a, b \in DOMAIN values : a # b => values[a] # values[b]
        /\ Range(values) = {value(n) : n \in pool}
        /\ \A a, b \in DOMAIN values : a < b => first(values[a]) < first(values[b])

\* C25 as stated: a multi-valued item yields the values of all matches of
\* score > 0, each once, in order of first occurrence.
C25_DistinctValuesInOrder ==
    pc = "parsed" =>
        \A item \in MultiValuedItems :
            IF PositiveMatches(item) = {}
            THEN item.var_name \notin DOMAIN contextual_data
            ELSE /\ item.var_name \in DOMAIN contextual_data
                 /\ ListsDistinctValuesOf(contextual_data[item.var_name], item,
                                          PositiveMatches(item))

\* C25 as amended: a multi-valued item yields the values of the matches of
\* score > 0 whose stripped text is not empty, each once, in order of first
\* occurrence, and nothing when there is no such match.
C25_DistinctSurvivingValuesInOrder ==
    pc = "parsed" =>
        \A item \in MultiValuedItems :
            IF SurvivingMatches(item) = {}
            THEN item.var_name \notin DOMAIN contextual_data
            ELSE /\ item.var_name \in DOMAIN contextual_data
                 /\ ListsDistinctValuesOf(contextual_data[item.var_name], item,
                                          SurvivingMatches(item))

\* A multi-valued item with a keyword met a match without the keyword in its
\* window and the same value twice near the keyword: the list holds it once.
C25_Witness ==
    /\ pc = "parsed"
    /\ \E item \in MultiValuedItems :
          /\ item.config.keywords # <<>>
          /\ Cardinality(SurvivingMatches(item)) >= 2
          /\ DOMAIN MatchesOf(item) # PositiveMatches(item)
          /\ item.var_name \in DOMAIN contextual_data
          /\ Len(contextual_data[item.var_name]) < Cardinality(SurvivingMatches(item))

(***************************************************************************)
(* Termination                                                             *)
(***************************************************************************)
\* run_system is one thread that goes on as long as it has a step to take.
SpecFair == Spec /\ WF_vars(Next)

\* The page links that a page of the web holds or reveals and that lead to a
\* URL of the domain base_domain outside the social networks.
HopLinks(page_url, base_domain) ==
    {l \in extract_links(web[page_url].markup \cup web[page_url].reveal, page_url) :
        /\ ~IsFileOf[l]
        /\ NetlocOf[l] = base_domain
        /\ ~IsSocialOf[NormalizedOf[l]]}

\* The normalized URLs, each with the domain of its seed, that lie within
\* hops internal links of a seed.
RECURSIVE WithinHops(_)
WithinHops(hops) ==
    IF hops = 0
    THEN {<<NormalizedOf[INPUT_LINK[i]], NetlocOf[NormalizedOf[INPUT_LINK[i]]]>> :
             i \in DOMAIN INPUT_LINK}
    ELSE LET nearer == WithinHops(hops - 1)
         IN  nearer \cup
             UNION {{<<NormalizedOf[l], ub[2]>> : l \in HopLinks(ub[1], ub[2])} :
                       ub \in nearer}

ReachableUrls == {ub[1] : ub \in WithinHops(MAX_CRAWL_DEPTH)}

\* C26: a run in which every fetch returns reaches the end of the loop with
\* an empty frontier, and at no time has it fetched more URLs than there are
\* normalized URLs within MAX_CRAWL_DEPTH internal links of a seed, nor a URL
\* that is not one of them.
C26_CrawlEndsWithinTheReachableUrls ==
    /\ <>(\/ pc \in {"exit", "crashed"}
          \/ pc = "done" /\ crawl_queue = <<>>)
    /\ [](/\ Len(fetch_log) <= Cardinality(ReachableUrls)
          /\ \A i \in DOMAIN fetch_log : fetch_log[i].url \in ReachableUrls)

\* A run in which a fetch or an insert failed has ended with an empty
\* frontier, having fetched each of the URLs within MAX_CRAWL_DEPTH >= 1
\* internal links of its seeds.
C26_Witness ==
    /\ pc = "done"
    /\ crawl_queue = <<>>
    /\ MAX_CRAWL_DEPTH >= 1
    /\ faults = 1
    /\ Len(fetch_log) >= 3
    /\ Len(fetch_log) = Cardinality(ReachableUrls)

(***************************************************************************)
(* One fetch per URL                                                       *)
(***************************************************************************)
\* The pages fetched so far that hold a link to a URL fetched before them or
\* to themselves.
LinksBack ==
    {i \in DOMAIN fetch_log :
        \E l \in HopLinks(fetch_log[i].url, NetlocOf[fetch_log[i].url]) :
            \E j \in 1..i : fetch_log[j].url = NormalizedOf[l]}

\* C27: no two calls of fetch_content_and_links are for the same URL, and a
\* URL is in visited_urls from the moment its fetch is about to start.
C27_FetchedAtMostOnce ==
    /\ \A i, j \in DOMAIN fetch_log : i # j => fetch_log[i].url # fetch_log[j].url
    /\ \A i \in DOMAIN fetch_log : fetch_log[i].url \in visited_urls
    /\ pc = "fetch" => cur.url \in visited_urls

\* A run has ended in which a fetch failed, a page linked to itself and another
\* page linked back to a page fetched before it.
C27_Witness ==
    /\ pc = "done"
    /\ \E i \in DOMAIN db_documents : db_documents[i].status = "FAILED"
    /\ \E i \in LinksBack :
          \E l \in HopLinks(fetch_log[i].url, NetlocOf[fetch_log[i].url]) :
              NormalizedOf[l] = fetch_log[i].url
    /\ \E i \in LinksBack :
          \E l \in HopLinks(fetch_log[i].url, NetlocOf[fetch_log[i].url]) :
              \E j \in 1..(i - 1) : fetch_log[j].url = NormalizedOf[l]

(***************************************************************************)
(* Breadth first                                                           *)
(***************************************************************************)
\* The depth at which url was appended to the frontier.
DepthOf(url) ==
    LET i == CHOOSE k \in DOMAIN frontier_log : frontier_log[k].entry.url = url
    IN  frontier_log[i].entry.depth

\* C28: the crawl is breadth-first. The calls of the fetcher and the waiting
\* entries are in non-decreasing order of depth and no waiting entry is less
\* deep than the entry being processed; a seed has depth 0, any other entry
\* lies one deeper than the page that enqueued it, and a document records the
\* depth at which its URL was appended; and no chain is shorter: when the
\* links of a page at depth d are enqueued, each internal, non-social link
\* within MAX_CRAWL_DEPTH leads to a URL appended at depth d + 1 or less.
C28_BreadthFirst ==
    /\ [](/\ \A i, j \in DOMAIN fetch_log :
                i < j => fetch_log[i].depth <= fetch_log[j].depth
          /\ \A i, j \in DOMAIN crawl_queue :
                i < j => crawl_queue[i].depth <= crawl_queue[j].depth
          /\ \A i \in DOMAIN crawl_queue : cur.depth <= crawl_queue[i].depth
          /\ \A i \in DOMAIN frontier_log :
                frontier_log[i].entry.depth =
                    IF frontier_log[i].parent = NoEntry THEN 0
                    ELSE DepthOf(frontier_log[i].parent.url) + 1
          /\ \A i \in DOMAIN db_documents :
                /\ \E k \in DOMAIN frontier_log :
                      frontier_log[k].entry.url = db_documents[i].input_url
                /\ db_documents[i].crawl_depth = DepthOf(db_documents[i].input_url))
    /\ [][(pc = "enqueue" /\ pc' = "delay") =>
            \A l \in crawl_result.links :
                (/\ NetlocOf[l] = cur.base
                 /\ ~IsSocialOf[NormalizedOf[l]]
                 /\ cur.depth + 1 <= MAX_CRAWL_DEPTH)
                => \E i \in DOMAIN frontier_log' :
                      /\ frontier_log'[i].entry.url = NormalizedOf[l]
                      /\ frontier_log'[i].entry.depth <= cur.depth + 1]_vars

\* With two seeds, a page of depth 1 that links back to a seed and to another
\* page of depth 1 has been processed, and a page of depth 2 was fetched after
\* every page of depth 1.
C28_Witness ==
    /\ pc = "done"
    /\ Len(INPUT_LINK) = 2
    /\ \E i, j, k \in DOMAIN fetch_log :
          /\ fetch_log[i].depth = 0 /\ fetch_log[j].depth = 1 /\ fetch_log[k].depth = 2
          /\ \E l \in HopLinks(fetch_log[j].url, NetlocOf[fetch_log[j].url]) :
                NormalizedOf[l] = fetch_log[i].url

(***************************************************************************)
(* One record per visited URL                                              *)
(***************************************************************************)
\* C29: whenever an iteration of the loop has ended the documents handed to
\* insert_data are as many as the visited URLs, one for each and for no other
\* entry; and the document handed over is that of the entry just fetched,
\* with status FAILED exactly when the result of the fetch carries an error.
C29_OneRecordPerVisitedUrl ==
    /\ [](pc \in {"loop", "done"} =>
            /\ Len(db_documents) = Cardinality(visited_urls)
            /\ {db_documents[i].input_url : i \in DOMAIN db_documents} = visited_urls)
    /\ [][(pc = "store" /\ pc' # "store") =>
            /\ Len(db_documents') = Len(db_documents) + 1
            /\ db_documents'[Len(db_documents')].input_url = cur.url
            /\ db_documents'[Len(db_documents')].status = "FAILED"
                   <=> crawl_result.error # ""
            /\ db_documents'[Len(db_documents')].status \in {"FAILED", "SUCCESS"}]_vars

\* Iterations have ended after a fetch that failed and a fetch that worked:
\* two URLs are visited and two documents were handed over.
C29_Witness ==
    /\ pc = "loop"
    /\ Cardinality(visited_urls) >= 2
    /\ \E i, j \in DOMAIN db_documents :
          db_documents[i].status = "FAILED" /\ db_documents[j].status = "SUCCESS"

(***************************************************************************)
(* Clicks within one page                                                  *)
(***************************************************************************)
\* The element of the page that an event of click_log is about: the control
\* and its place among the controls found. A control that two selectors find
\* at the same place is one element that matches both selectors.
PageElement(event) == <<layout[event.selector][event.index], event.index>>

\* C30: during the fetch of one page no element is clicked twice, also when
\* more than one selector finds it; two elements are both clicked only when
\* their texts differ; and an element found active, or whose click failed, is
\* not registered as clicked.
C30_ClickedOncePerPage ==
    /\ \A i, j \in Clicked :
          (i # j /\ click_log[i].page = click_log[j].page) =>
              /\ PageElement(click_log[i]) # PageElement(click_log[j])
              /\ click_log[i].key[2] # click_log[j].key[2]
    /\ \A i \in DOMAIN click_log :
          (/\ click_log[i].what \in {"active", "raised"}
           /\ click_log[i].page = sim_page
           /\ click_log[i].key \in clicked_elements_key)
          => \E j \in Clicked : /\ click_log[j].page = sim_page
                                /\ click_log[j].key = click_log[i].key

(***************************************************************************)
(* The social blocklist                                                    *)
(***************************************************************************)
\* The host is a blocklisted social-network domain or a subdomain of one.
HostIsSocial(netloc) ==
    \E host \in {Lower(netloc)} :
        \E domain \in SOCIAL_DOMAINS :
            host = domain \/ EndsWith(host, <<".">> \o domain)

\* The cleaned forms of the anchors of a markup that lead to pages of the
\* site of page_url, the host of which is not a social network's.
SitePageAnchors(hrefs, page_url) ==
    UNION {{clean \in {urlunparse(parsed)} :
               /\ parsed.scheme \in HttpSchemes
               /\ parsed.netloc = urlparse(page_url).netloc
               /\ ~HostIsSocial(parsed.netloc)
               /\ ~is_downloadable_file_link(clean)}
           : parsed \in {urlparse(h) : h \in hrefs}}

\* C31: the blocklist removes a link only when its host is a social-network
\* domain or a subdomain of one.  When a page has been fetched without error,
\* every anchor of its markup that leads to a page of the same site whose
\* host is not such a domain is among the links of the result, also when the
\* host ends in a blocklisted name or the path holds one, and the enqueue
\* step leaves its normalized form visited or queued when the next depth is
\* within MAX_CRAWL_DEPTH.
C31_OnlySocialHostsAreBlocked ==
    [][(/\ pc = "enqueue"
        /\ pc' = "delay"
        /\ crawl_result.error = ""
        /\ crawl_result.type \in {"STATIC_HTML", "DYNAMIC_HTML"})
       => \A clean_url \in SitePageAnchors(dom, cur.url) :
             /\ clean_url \in crawl_result.links
             /\ DepthAllowed(cur.depth + 1, MAX_CRAWL_DEPTH)
                   => normalize_url(clean_url) \in visited_urls \cup queued_urls'
      ]_vars

====
